---------------------------- MODULE Spec2Model ----------------------------
(***************************************************************************)
(* Model of the VoiceLens normalization engine:                            *)
(*   src/provider_documentation.py  (registry, signature check, mapper,    *)
(*                                   path accessor, value transforms)      *)
(*   src/vcp_v05_schema.py          (v0.5 schema, validator)               *)
(*                                                                         *)
(* Python values are tagged pairs <<tag, value>>; a Python str is a TLA+   *)
(* string, a dict is a function from strings, a list is a sequence.  A     *)
(* call that raises is the outcome [exc |-> <exception class>].            *)
(***************************************************************************)
EXTENDS Integers, Sequences, FiniteSets, TLC

VARIABLES op, args, result, uuidCount

vars == <<op, args, result, uuidCount>>

----------------------------------------------------------------------------
(* Python values *)

Str(s) == <<"str", s>>
Num(n) == <<"int", n>>
\* a float, held in hundredths (0.85 is Float(85))
Float(h) == <<"float", h>>
Bool(b) == <<"bool", b>>
None == <<"none", 0>>
Dict(f) == <<"dict", f>>
List(s) == <<"list", s>>

Tag(x) == x[1]
Val(x) == x[2]

EmptyDict == Dict(<<>>)
EmptyList == List(<<>>)

IsDict(x) == Tag(x) = "dict"
IsStr(x) == Tag(x) = "str"
IsNone(x) == Tag(x) = "none"

\* Python truthiness, as used by `or` and `if x`
Truthy(x) ==
    CASE Tag(x) = "none" -> FALSE
      [] Tag(x) = "bool" -> Val(x)
      [] Tag(x) = "int" -> Val(x) # 0
      [] Tag(x) = "float" -> Val(x) # 0
      [] Tag(x) = "str" -> Val(x) # ""
      [] Tag(x) = "list" -> Val(x) # <<>>
      [] Tag(x) = "dict" -> DOMAIN Val(x) # {}

\* outcome of a call: a returned value or a raised exception
Ok(v) == [exc |-> "", val |-> v]
Raise(e) == [exc |-> e, val |-> None]
Raised(r) == r.exc # ""

\* the one element of a singleton set; Bind({e(x) : x \in {v}}) is e with x
\* naming the value of v, which is computed once
Bind(S) == CHOOSE y \in S : TRUE

\* dict.get(key, default)
DictGet(d, key, default) ==
    IF key \in DOMAIN Val(d) THEN Val(d)[key] ELSE default

\* {**d, key: value}
DictPut(d, key, value) == Dict((key :> value) @@ Val(d))

----------------------------------------------------------------------------
(* Bounds *)

\* fields a producer sets in, or overwrites on, a base payload
MaxFields == 1
\* clock readings after the first
MaxClock == 1
\* identifiers uuid4 hands out in one run
MaxUuid == 2
\* the first clock reading, in seconds; later than every example timestamp
FirstInstant == 1800000000

\* the clock readings of a run
Times == FirstInstant..(FirstInstant + MaxClock)

----------------------------------------------------------------------------
(* Python str operations *)

\* index of the first occurrence of the character c in s, 0 when there is none
RECURSIVE FindFrom(_, _, _)
FindFrom(s, c, i) ==
    IF i > Len(s) THEN 0
    ELSE IF SubSeq(s, i, i) = c THEN i
    ELSE FindFrom(s, c, i + 1)

\* s.split(c) for a one-character separator c
RECURSIVE Split(_, _)
Split(s, c) ==
    LET i == FindFrom(s, c, 1) IN
    IF i = 0 THEN <<s>>
    ELSE <<SubSeq(s, 1, i - 1)>> \o Split(SubSeq(s, i + 1, Len(s)), c)

\* term in s
Contains(s, term) ==
    \E i \in 1..(Len(s) - Len(term) + 1) : SubSeq(s, i, i + Len(term) - 1) = term

\* str.lower() of one character
LowerChar ==
    ("A" :> "a") @@ ("B" :> "b") @@ ("C" :> "c") @@ ("D" :> "d") @@ ("E" :> "e") @@
    ("F" :> "f") @@ ("G" :> "g") @@ ("H" :> "h") @@ ("I" :> "i") @@ ("J" :> "j") @@
    ("K" :> "k") @@ ("L" :> "l") @@ ("M" :> "m") @@ ("N" :> "n") @@ ("O" :> "o") @@
    ("P" :> "p") @@ ("Q" :> "q") @@ ("R" :> "r") @@ ("S" :> "s") @@ ("T" :> "t") @@
    ("U" :> "u") @@ ("V" :> "v") @@ ("W" :> "w") @@ ("X" :> "x") @@ ("Y" :> "y") @@
    ("Z" :> "z")

\* s.lower()
RECURSIVE Lower(_)
Lower(s) ==
    IF s = "" THEN ""
    ELSE LET c == SubSeq(s, 1, 1) IN
         (IF c \in DOMAIN LowerChar THEN LowerChar[c] ELSE c) \o Lower(SubSeq(s, 2, Len(s)))

\* s[:n]
Prefix(s, n) == SubSeq(s, 1, IF Len(s) < n THEN Len(s) ELSE n)

----------------------------------------------------------------------------
(* Provider registry: VoiceAIProviderRegistry._initialize_providers.       *)
(* The two millisecond timestamps of the retell example (1714608475945,    *)
(* 1714608491736) are held in whole seconds: they name the same instants   *)
(* and TLC integers are 32 bits wide.                                      *)

\* providers["retell"].webhook_schemas[0].example_payload
Example_retell ==
    Dict(
      ("event" :> Str("call_ended")) @@
      ("call" :> Dict(
          ("call_id" :> Str("Jabr9TXYYJHfvl6Syypi88rdAHYHmcq6")) @@
          ("from_number" :> Str("+12137771234")) @@
          ("to_number" :> Str("+12137771235")) @@
          ("direction" :> Str("inbound")) @@
          ("start_timestamp" :> Num(1714608475)) @@
          ("end_timestamp" :> Num(1714608491)) @@
          ("disconnection_reason" :> Str("user_hangup")) @@
          ("transcript" :> Str("Full conversation transcript...")) @@
          ("metadata" :> EmptyDict))))

ProviderNames == {"retell", "bland", "vapi", "elevenlabs", "openai_realtime", "assistable"}

\* the ProviderInfo fields the engine reads; webhook_auth is the AuthMethod value
\* of webhook_auth.method, "None" when the provider has no webhook_auth
providers ==
    LET \* providers["bland"].webhook_schemas[0].example_payload
        Example_bland ==
            Dict(
              ("call_id" :> Str("c47c3e15-acad-4f8b-99e7-81d529dd5dc6")) @@
              ("from" :> Str("+12345678901")) @@
              ("to" :> Str("+10987654321")) @@
              ("call_length" :> Num(120)) @@
              ("answered" :> Bool(TRUE)) @@
              ("completed" :> Bool(TRUE)) @@
              ("transcript" :> Str("AI: Hello! How can I help? User: Hi there!")) @@
              ("recording_url" :> Str("https://storage.googleapis.com/...")) @@
              ("analysis" :> EmptyDict))
        \* providers["vapi"].webhook_schemas[0].example_payload
        Example_vapi ==
            Dict(
              ("message" :> Dict(
                  ("type" :> Str("end-of-call-report")) @@
                  ("endedReason" :> Str("hangup")) @@
                  ("call" :> Dict(
                      ("id" :> Str("call_123")) @@
                      ("phoneNumber" :> Str("+1234567890")))) @@
                  ("artifact" :> Dict(
                      ("transcript" :> Str("AI: How can I help? User: What's the weather?")) @@
                      ("messages" :> List(<<
                          Dict(
                            ("role" :> Str("assistant")) @@
                            ("message" :> Str("How can I help?"))),
                          Dict(
                            ("role" :> Str("user")) @@
                            ("message" :> Str("What's the weather?")))>>)))))))
        \* providers["elevenlabs"].webhook_schemas[0].example_payload
        Example_elevenlabs ==
            Dict(
              ("type" :> Str("post_call_transcription")) @@
              ("event_timestamp" :> Num(1739537297)) @@
              ("data" :> Dict(
                  ("agent_id" :> Str("xyz")) @@
                  ("conversation_id" :> Str("abc")) @@
                  ("transcript" :> List(<<
                      Dict(
                        ("role" :> Str("agent")) @@
                        ("message" :> Str("Hello! How can I help?")) @@
                        ("time_in_call_secs" :> Num(0)))>>)) @@
                  ("metadata" :> Dict(
                      ("start_time_unix_secs" :> Num(1739537297)) @@
                      ("call_duration_secs" :> Num(22)) @@
                      ("cost" :> Num(296)))))))
        \* providers["openai_realtime"].webhook_schemas[0].example_payload
        Example_openai_realtime ==
            Dict(
              ("event_id" :> Str("event_1920")) @@
              ("type" :> Str("session.updated")) @@
              ("session" :> Dict(
                  ("id" :> Str("sess_001")) @@
                  ("model" :> Str("gpt-realtime")) @@
                  ("instructions" :> Str("You are a helpful assistant.")))))
        \* providers["assistable"].webhook_schemas[0].example_payload
        Example_assistable ==
            Dict(
              ("args" :> Dict(
                  ("contact_address_zip_code" :> Str("90210")))) @@
              ("metadata" :> Dict(
                  ("contact_id" :> Str("contact_12345")) @@
                  ("location_id" :> Str("loc_67890")))) @@
              ("call_id" :> Str("assistable_call_abc123")) @@
              ("call_type" :> Str("outbound_sales")) @@
              ("direction" :> Str("outbound")) @@
              ("to" :> Str("+1234567890")) @@
              ("from" :> Str("+1987654321")) @@
              ("contact_id" :> Str("contact_12345")) @@
              ("disconnection_reason" :> Str("completed")) @@
              ("user_sentiment" :> Str("positive")) @@
              ("call_summary" :> Str("Customer showed interest in premium package and requested more information")) @@
              ("call_completion" :> Bool(TRUE)) @@
              ("call_completion_reason" :> Str("task_completed")) @@
              ("assistant_task_completion" :> Bool(TRUE)) @@
              ("recording_url" :> Str("https://storage.assistable.ai/recordings/call_abc123.mp3")) @@
              ("call_time_ms" :> Num(185000)) @@
              ("call_time_seconds" :> Num(185)) @@
              ("full_transcript" :> Str("Assistant: Hello! This is Sarah from Assistable AI. How are you today?\nCustomer: Hi Sarah, I'm doing well thanks.\nAssistant: Great! I'm calling about our premium AI assistant package...")) @@
              ("start_timestamp" :> Num(1703001600)) @@
              ("end_timestamp" :> Num(1703001785)) @@
              ("added_to_wallet" :> Bool(FALSE)) @@
              ("extractions" :> Dict(
                  ("contact_zip_code" :> Str("90210")) @@
                  ("customer_interest_level" :> Str("high")) @@
                  ("next_followup_date" :> Str("2025-10-21")) @@
                  ("product_interest" :> Str("premium_package")) @@
                  ("budget_range" :> Str("$500-1000")) @@
                  ("decision_maker" :> Bool(TRUE)) @@
                  ("purchase_timeline" :> Str("within_30_days")))))
        \* providers["retell"].vcp_mapping_rules, in insertion order
        Rules_retell == <<
            <<"call.call_id", "call.call_id">>,
            <<"call.from_number", "call.from_">>,
            <<"call.to_number", "call.to">>,
            <<"call.direction", "call.channel">>,
            <<"call.start_timestamp", "call.start_time">>,
            <<"call.end_timestamp", "call.end_time">>,
            <<"call.transcript", "artifacts.transcript">>,
            <<"event", "audit.event_type">>>>
        \* providers["bland"].vcp_mapping_rules, in insertion order
        Rules_bland == <<
            <<"call_id", "call.call_id">>,
            <<"from", "call.from_">>,
            <<"to", "call.to">>,
            <<"call_length", "call.duration_sec">>,
            <<"transcript", "artifacts.transcript">>,
            <<"recording_url", "artifacts.recording_url">>>>
        \* providers["vapi"].vcp_mapping_rules, in insertion order
        Rules_vapi == <<
            <<"message.call.id", "call.call_id">>,
            <<"message.endedReason", "outcomes.objective.disconnect_reason">>,
            <<"message.artifact.transcript", "artifacts.transcript">>,
            <<"message.artifact.recording", "artifacts.recording_url">>>>
        \* providers["elevenlabs"].vcp_mapping_rules, in insertion order
        Rules_elevenlabs == <<
            <<"data.conversation_id", "call.call_id">>,
            <<"data.agent_id", "call.agent_id">>,
            <<"data.transcript", "artifacts.transcript_object">>,
            <<"data.metadata.start_time_unix_secs", "call.start_time">>,
            <<"data.metadata.call_duration_secs", "call.duration_sec">>>>
        \* providers["openai_realtime"].vcp_mapping_rules, in insertion order
        Rules_openai_realtime == <<
            <<"session.id", "call.session_id">>,
            <<"session.model", "call.model_used">>,
            <<"item.content.transcript", "artifacts.transcript">>>>
        \* providers["assistable"].vcp_mapping_rules, in insertion order
        Rules_assistable == <<
            <<"call_id", "call.call_id">>,
            <<"direction", "call.channel">>,
            <<"to", "call.to">>,
            <<"from", "call.from_">>,
            <<"start_timestamp", "call.start_time">>,
            <<"end_timestamp", "call.end_time">>,
            <<"call_time_seconds", "call.duration_sec">>,
            <<"full_transcript", "artifacts.transcript">>,
            <<"recording_url", "artifacts.recording_url">>,
            <<"call_summary", "hcr.summary">>,
            <<"user_sentiment", "outcomes.user_satisfaction_score">>,
            <<"call_completion", "outcomes.objective.metrics.task_completion">>,
            <<"assistant_task_completion", "outcomes.objective.metrics.assistant_success">>,
            <<"disconnection_reason", "outcomes.objective.status">>,
            <<"extractions", "custom.provider_specific.assistable.extractions">>,
            <<"args", "custom.provider_specific.assistable.call_args">>,
            <<"metadata", "custom.provider_specific.assistable.metadata">>,
            <<"contact_id", "call.caller_id">>,
            <<"call_type", "custom.provider_specific.assistable.call_type">>>>
    IN           [name \in ProviderNames |->
        CASE name = "retell" ->
               [webhook_auth |-> "signature_header",
                vcp_mapping_rules |-> Rules_retell,
                example_payload |-> Example_retell]
          [] name = "bland" ->
               [webhook_auth |-> "bearer_token",
                vcp_mapping_rules |-> Rules_bland,
                example_payload |-> Example_bland]
          [] name = "vapi" ->
               [webhook_auth |-> "None",
                vcp_mapping_rules |-> Rules_vapi,
                example_payload |-> Example_vapi]
          [] name = "elevenlabs" ->
               [webhook_auth |-> "hmac_sha256",
                vcp_mapping_rules |-> Rules_elevenlabs,
                example_payload |-> Example_elevenlabs]
          [] name = "openai_realtime" ->
               [webhook_auth |-> "None",
                vcp_mapping_rules |-> Rules_openai_realtime,
                example_payload |-> Example_openai_realtime]
          [] name = "assistable" ->
               [webhook_auth |-> "api_key_header",
                vcp_mapping_rules |-> Rules_assistable,
                example_payload |-> Example_assistable]]

----------------------------------------------------------------------------
(* Path accessor: VCPMapper._get_nested_value / _set_nested_value *)

SplitCache ==
    LET \* path.split('.') of the paths the mapper itself names, computed once
        RulePaths ==
            {"call.call_id", "call.session_id"} \cup
            UNION {{providers[n].vcp_mapping_rules[i][k] :
                      i \in 1..Len(providers[n].vcp_mapping_rules), k \in 1..2} :
                   n \in ProviderNames}
    IN  [path \in RulePaths |-> Split(path, ".")]

\* path.split('.')
PathKeys(path) == IF path \in DOMAIN SplitCache THEN SplitCache[path] ELSE Split(path, ".")

\* a lookup that answers a broken path with the last value it reached
RECURSIVE GetKeysReached(_, _)
GetKeysReached(value, keys) ==
    IF keys = <<>> THEN value
    ELSE IF IsDict(value) /\ Head(keys) \in DOMAIN Val(value)
         THEN GetKeysReached(Val(value)[Head(keys)], Tail(keys))
         ELSE value

RECURSIVE GetKeys(_, _)
GetKeys(value, keys) ==
    IF keys = <<>> THEN value
    ELSE IF IsDict(value) /\ Head(keys) \in DOMAIN Val(value)
         THEN GetKeys(Val(value)[Head(keys)], Tail(keys))
         ELSE None

_get_nested_value(data, path) == GetKeys(data, PathKeys(path))

\* the loop over keys[:-1] and the final store; `key not in current`,
\* `current[key] = {}`, `current = current[key]` and `current[key] = value`
\* each raise TypeError when current is a str, a list, a number or None
RECURSIVE SetKeys(_, _, _)
SetKeys(current, keys, value) ==
    IF ~IsDict(current) THEN Raise("TypeError")
    ELSE IF Len(keys) = 1 THEN Ok(DictPut(current, Head(keys), value))
    ELSE LET key == Head(keys)
             child == IF key \in DOMAIN Val(current) THEN Val(current)[key] ELSE EmptyDict
         IN  Bind({IF Raised(r) THEN r ELSE Ok(DictPut(current, key, r.val))
                   : r \in {SetKeys(child, Tail(keys), value)}})

\* the outcome's val is the container as the call leaves it
_set_nested_value(data, path, value) == SetKeys(data, PathKeys(path), value)

\* VoiceAIProviderRegistry.get_provider: <<info>> when registered, <<>> for None
get_provider(provider_name) ==
    IF Lower(provider_name) \in DOMAIN providers
    THEN <<providers[Lower(provider_name)]>>
    ELSE <<>>

----------------------------------------------------------------------------
(* Signature check: VoiceAIProviderRegistry.validate_webhook_signature *)

\* hmac.new(key, msg, sha256).hexdigest(): the digest is collision free, so it
\* is written as a text that determines (key, msg); like a hex digest it holds
\* neither ',' nor '=' (the modelled keys and messages hold neither)
HmacSha256Hex(key, msg) == "<" \o key \o ">" \o msg

\* a check whose digest covers the body alone, not the timestamp
ElevenLabsCheckBodyOnly(payload, signature, secret) ==
    LET parts == Split(signature, ",")
        first == Split(parts[1], "=")
    IN  IF Len(first) < 2 THEN Raise("IndexError")
        ELSE IF Len(parts) < 2 THEN Raise("IndexError")
        ELSE IF Len(Split(parts[2], "=")) < 2 THEN Raise("IndexError")
        ELSE IF ~IsStr(secret) THEN Raise("AttributeError")
        ELSE LET hash_part == Split(parts[2], "=")[2]
                 calculated_hash == HmacSha256Hex(Val(secret), payload)
             IN  Ok(Bool(("v0=" \o calculated_hash) = ("v0=" \o hash_part)))

\* the elevenlabs branch: 't=timestamp,v0=hash'
ElevenLabsCheck(payload, signature, secret) ==
    LET parts == Split(signature, ",")
        first == Split(parts[1], "=")
    IN  IF Len(first) < 2 THEN Raise("IndexError")
        ELSE IF Len(parts) < 2 THEN Raise("IndexError")
        ELSE IF Len(Split(parts[2], "=")) < 2 THEN Raise("IndexError")
        ELSE IF ~IsStr(secret) THEN Raise("AttributeError")
        ELSE LET timestamp == first[2]
                 hash_part == Split(parts[2], "=")[2]
                 full_payload == timestamp \o "." \o payload
                 calculated_hash == HmacSha256Hex(Val(secret), full_payload)
             IN  Ok(Bool(("v0=" \o calculated_hash) = ("v0=" \o hash_part)))

\* payload and signature are str; secret is a str or None
validate_webhook_signature(provider_name, payload, signature, secret) ==
    LET provider == get_provider(provider_name) IN
    IF provider = <<>> \/ provider[1].webhook_auth = "None" THEN Ok(Bool(FALSE))
    ELSE IF provider[1].webhook_auth = "hmac_sha256" /\ provider_name = "elevenlabs"
         THEN ElevenLabsCheck(payload, signature, secret)
    ELSE IF provider[1].webhook_auth = "signature_header" /\ provider_name = "retell"
         THEN Ok(Bool(TRUE))
    ELSE Ok(Bool(FALSE))

----------------------------------------------------------------------------
(* str(x) and repr(x), as f-strings and str() apply them *)

RECURSIVE PyRepr(_)
RECURSIVE JoinRepr(_, _)
RECURSIVE JoinItems(_, _, _)

JoinRepr(items, i) ==
    IF i > Len(items) THEN ""
    ELSE (IF i > 1 THEN ", " ELSE "") \o PyRepr(items[i]) \o JoinRepr(items, i + 1)

JoinItems(f, keys, i) ==
    IF i > Len(keys) THEN ""
    ELSE (IF i > 1 THEN ", " ELSE "") \o "'" \o keys[i] \o "': " \o PyRepr(f[keys[i]])
         \o JoinItems(f, keys, i + 1)

PyRepr(x) ==
    LET \* the keys of a dict as a sequence (the model keeps no insertion order)
        RECURSIVE KeySeq(_)
        KeySeq(keys) ==
            IF keys = {} THEN <<>>
            ELSE LET k == CHOOSE member \in keys : TRUE IN <<k>> \o KeySeq(keys \ {k})
        \* repr of a float held in hundredths: 0.5, 0.85, 1.0
        FloatRepr(h) ==
            LET Digits2(n) == IF n < 10 THEN "0" \o ToString(n) ELSE ToString(n)
            IN  ToString(h \div 100) \o "." \o
                (IF h % 10 = 0 THEN ToString((h % 100) \div 10) ELSE Digits2(h % 100))
    IN  CASE Tag(x) = "none" -> "None"
          [] Tag(x) = "bool" -> IF Val(x) THEN "True" ELSE "False"
          [] Tag(x) = "int" -> ToString(Val(x))
          [] Tag(x) = "float" -> FloatRepr(Val(x))
          [] Tag(x) = "str" -> "'" \o Val(x) \o "'"
          [] Tag(x) = "list" -> "[" \o JoinRepr(Val(x), 1) \o "]"
          [] Tag(x) = "dict" -> "{" \o JoinItems(Val(x), KeySeq(DOMAIN Val(x)), 1) \o "}"

PyStr(x) == IF IsStr(x) THEN Val(x) ELSE PyRepr(x)

----------------------------------------------------------------------------
(* Value transforms: VCPMapper._convert_* *)

sentiment_mapping ==
    ("very_positive" :> 100) @@ ("positive" :> 80) @@ ("slightly_positive" :> 60) @@
    ("neutral" :> 50) @@ ("slightly_negative" :> 40) @@ ("negative" :> 20) @@
    ("very_negative" :> 0)

\* sentiment.lower() raises AttributeError on a value that is no str
_convert_sentiment_to_score(sentiment) ==
    IF ~IsStr(sentiment) THEN Raise("AttributeError")
    ELSE LET key == Lower(Val(sentiment)) IN
         Ok(Float(IF key \in DOMAIN sentiment_mapping THEN sentiment_mapping[key] ELSE 50))

direction_mapping ==
    ("inbound" :> "phone") @@ ("outbound" :> "phone") @@ ("web" :> "web") @@
    ("api" :> "api") @@ ("websocket" :> "websocket")

_convert_direction_to_channel(direction) ==
    IF ~IsStr(direction) THEN Raise("AttributeError")
    ELSE LET key == Lower(Val(direction)) IN
         Ok(Str(IF key \in DOMAIN direction_mapping THEN direction_mapping[key] ELSE "phone"))

AnyTerm(reason, terms) == \E term \in terms : Contains(reason, term)

\* a classification that tries the timeout terms before the success terms
ConvertDisconnectionTimeoutFirst(disconnection_reason) ==
    IF ~IsStr(disconnection_reason) THEN Raise("AttributeError")
    ELSE LET reason == Lower(Val(disconnection_reason)) IN
         Ok(Str(
            IF AnyTerm(reason, {"timeout", "no_answer", "busy"}) THEN "timeout"
            ELSE IF AnyTerm(reason, {"completed", "success", "finished"}) THEN "success"
            ELSE IF AnyTerm(reason, {"error", "failed", "connection"}) THEN "error"
            ELSE IF AnyTerm(reason, {"partial", "incomplete"}) THEN "partial"
            ELSE "failure"))

_convert_disconnection_to_status(disconnection_reason) ==
    IF ~IsStr(disconnection_reason) THEN Raise("AttributeError")
    ELSE LET reason == Lower(Val(disconnection_reason)) IN
         Ok(Str(
            IF AnyTerm(reason, {"completed", "success", "finished"}) THEN "success"
            ELSE IF AnyTerm(reason, {"timeout", "no_answer", "busy"}) THEN "timeout"
            ELSE IF AnyTerm(reason, {"error", "failed", "connection"}) THEN "error"
            ELSE IF AnyTerm(reason, {"partial", "incomplete"}) THEN "partial"
            ELSE "failure"))

\* a score that adds the quarter bonus on top of the urgency bonus
QualificationBothTimelineBonuses(sales_data) ==
    LET decision == IF DictGet(sales_data, "decision_maker", None) = Bool(TRUE) THEN 20 ELSE 0
        budget == PyStr(DictGet(sales_data, "budget_range", Str("")))
        budgetBonus == IF Contains(budget, "$") \/ Contains(Lower(budget), "budget")
                       THEN 15 ELSE 0
        timeline == Lower(PyStr(DictGet(sales_data, "purchase_timeline", Str(""))))
        urgent == IF Contains(timeline, "30 days") \/ Contains(timeline, "immediate")
                     \/ Contains(timeline, "urgent") THEN 15 ELSE 0
        quarter == IF Contains(timeline, "90 days") \/ Contains(timeline, "quarter")
                   THEN 10 ELSE 0
        score == 50 + decision + budgetBonus + urgent + quarter
    IN  Float(IF score > 100 THEN 100 ELSE score)

\* min(1.0, score), in hundredths
_calculate_qualification_score(sales_data) ==
    LET decision == IF DictGet(sales_data, "decision_maker", None) = Bool(TRUE) THEN 20 ELSE 0
        budget == PyStr(DictGet(sales_data, "budget_range", Str("")))
        budgetBonus == IF Contains(budget, "$") \/ Contains(Lower(budget), "budget")
                       THEN 15 ELSE 0
        timeline == Lower(PyStr(DictGet(sales_data, "purchase_timeline", Str(""))))
        timelineBonus ==
            IF Contains(timeline, "30 days") \/ Contains(timeline, "immediate")
               \/ Contains(timeline, "urgent") THEN 15
            ELSE IF Contains(timeline, "90 days") \/ Contains(timeline, "quarter") THEN 10
            ELSE 0
        score == 50 + decision + budgetBonus + timelineBonus
    IN  Float(IF score > 100 THEN 100 ELSE score)

----------------------------------------------------------------------------
(* Mapper: VCPMapper.map_to_vcp and its builders *)

\* {key: value for key, value in d.items() if keep(key)}
RECURSIVE Restrict(_, _)
Restrict(f, keys) ==
    IF keys = {} THEN <<>>
    ELSE LET k == CHOOSE x \in keys : TRUE IN (k :> f[k]) @@ Restrict(f, keys \ {k})

\* the rule's value after the provider's transform; only the exact id
\* "assistable" selects the transforms
TransformFor(provider_name, provider_path, value) ==
    IF provider_name = "assistable" /\ provider_path = "user_sentiment"
    THEN _convert_sentiment_to_score(value)
    ELSE IF provider_name = "assistable" /\ provider_path = "direction"
    THEN _convert_direction_to_channel(value)
    ELSE IF provider_name = "assistable" /\ provider_path = "disconnection_reason"
    THEN _convert_disconnection_to_status(value)
    ELSE Ok(value)

\* the body of the loop over provider.vcp_mapping_rules.items() for one rule
ApplyRule(provider_name, webhook_payload, rule, vcp_data) ==
    LET provider_path == rule[1]
        vcp_path == rule[2]
        value == _get_nested_value(webhook_payload, provider_path)
        converted == TransformFor(provider_name, provider_path, value)
    IN  IF IsNone(value) THEN Ok(vcp_data)
        ELSE IF Raised(converted) THEN converted
        ELSE _set_nested_value(vcp_data, vcp_path, converted.val)

\* the loop over the first n rules; an exception ends it
RECURSIVE ApplyRules(_, _, _, _)
ApplyRules(provider_name, webhook_payload, rules, n) ==
    IF n = 0 THEN Ok(EmptyDict)
    ELSE Bind({IF Raised(done) THEN done
               ELSE ApplyRule(provider_name, webhook_payload, rules[n], done.val)
               : done \in {ApplyRules(provider_name, webhook_payload, rules, n - 1)}})

\* webhook_payload.get raises AttributeError when the payload is no dict
_build_provider_specific_data(provider_name, webhook_payload) ==
    IF provider_name = "assistable"
    THEN IF ~IsDict(webhook_payload) THEN Raise("AttributeError")
         ELSE Ok(Dict(
            ("data" :> webhook_payload) @@
            ("extractions" :> DictGet(webhook_payload, "extractions", EmptyDict)) @@
            ("call_args" :> DictGet(webhook_payload, "args", EmptyDict)) @@
            ("metadata" :> DictGet(webhook_payload, "metadata", EmptyDict)) @@
            ("call_type" :> DictGet(webhook_payload, "call_type", None)) @@
            ("task_completion" :> Dict(
                ("call_completed" :>
                    DictGet(webhook_payload, "call_completion", Bool(FALSE))) @@
                ("assistant_completed" :>
                    DictGet(webhook_payload, "assistant_task_completion", Bool(FALSE))) @@
                ("completion_reason" :>
                    DictGet(webhook_payload, "call_completion_reason", None)))) @@
            ("analytics" :> Dict(
                ("added_to_wallet" :>
                    DictGet(webhook_payload, "added_to_wallet", Bool(FALSE))) @@
                ("user_sentiment_raw" :> DictGet(webhook_payload, "user_sentiment", None)) @@
                ("disconnection_reason" :>
                    DictGet(webhook_payload, "disconnection_reason", None))))))
    ELSE Ok(Dict("data" :> webhook_payload))

\* the three projections over a non-empty dict of extractions
IntegrationsOf(extractions) ==
    LET DictFilter(d, keep(_)) == Dict(Restrict(Val(d), {x \in DOMAIN Val(d) : keep(x)}))
        IsContactKey(key) ==
            LET StartsWith(s, prefix) == Len(s) >= Len(prefix) /\ SubSeq(s, 1, Len(prefix)) = prefix
            IN  StartsWith(key, "contact_") \/ StartsWith(key, "customer_") \/ StartsWith(key, "lead_")
        IsSchedulingKey(key) ==
            AnyTerm(Lower(key), {"appointment", "schedule", "meeting", "followup"})
        IsSalesKey(key) ==
            AnyTerm(Lower(key), {"budget", "purchase", "product_interest", "decision_maker", "timeline"})
        crm == IF "customer_interest_level" \in DOMAIN Val(extractions)
                  \/ "lead_score" \in DOMAIN Val(extractions)
               THEN "crm_system" :> Dict(
                      ("provider" :> Str("assistable_extractions")) @@
                      ("lead_score" :>
                          DictGet(extractions, "customer_interest_level", Str("unknown"))) @@
                      ("contact_data" :> DictFilter(extractions, IsContactKey)))
               ELSE <<>>
        calendar == IF "next_followup_date" \in DOMAIN Val(extractions)
                       \/ Contains(PyStr(extractions), "appointment_")
                    THEN "calendar_system" :> Dict(
                           ("provider" :> Str("assistable_scheduling")) @@
                           ("next_action" :> DictGet(extractions, "next_followup_date", None)) @@
                           ("scheduling_data" :> DictFilter(extractions, IsSchedulingKey)))
                    ELSE <<>>
        sales_data == DictFilter(extractions, IsSalesKey)
        sales == IF Truthy(sales_data)
                 THEN "sales_system" :> Dict(
                        ("provider" :> Str("assistable_sales_intelligence")) @@
                        ("opportunity_data" :> sales_data) @@
                        ("qualification_score" :> _calculate_qualification_score(sales_data)))
                 ELSE <<>>
    IN  Dict(crm @@ calendar @@ sales)

\* truthy extractions that are no dict: `in` raises TypeError on a number or
\* bool; on a str or list the first .get or .items() raises AttributeError
_build_integrations_data(provider_name, webhook_payload) ==
    IF provider_name # "assistable" THEN Ok(EmptyDict)
    ELSE IF ~IsDict(webhook_payload) THEN Raise("AttributeError")
    ELSE LET extractions == DictGet(webhook_payload, "extractions", EmptyDict) IN
         IF ~Truthy(extractions) THEN Ok(EmptyDict)
         ELSE IF Tag(extractions) \in {"int", "float", "bool"} THEN Raise("TypeError")
         ELSE IF ~IsDict(extractions) THEN Raise("AttributeError")
         ELSE LET integrations == IntegrationsOf(extractions) IN
              Ok(IF Truthy(integrations) THEN Dict("integrations" :> integrations)
                 ELSE EmptyDict)

\* str(uuid.uuid4()) for the n-th identifier the process generates
Uuid4(n) == "0000000" \o ToString(n) \o "-0000-4000-8000-000000000000"

\* datetime.isoformat() of an aware UTC datetime; the date and time digits are
\* abbreviated to the instant's second count, the offset is written as Python
\* writes it
IsoFormat(t) == "T" \o ToString(t) \o "+00:00"

\* the vcp_message literal
VcpMessage(provider_name, vcp_data, call_id, session_id, now, provider_specific, integrations) ==
    LET \* {**base, **over}
        DictMerge(base, over) == Dict(Val(over) @@ Val(base))
    IN  Dict(
          ("vcp_version" :> Str("0.5")) @@
          ("vcp_payload" :> Dict(
              ("call" :> DictMerge(Dict(
                  ("call_id" :> call_id) @@
                  ("session_id" :> session_id) @@
                  ("provider" :> Str(provider_name)) @@
                  ("start_time" :> Str(IsoFormat(now))) @@
                  ("end_time" :> Str(IsoFormat(now))) @@
                  ("duration_sec" :> Num(0)) @@
                  ("capabilities_invoked" :> EmptyList)),
                  DictGet(vcp_data, "call", EmptyDict))) @@
              ("model_selection" :> Dict(
                  ("policy_id" :> Str(provider_name \o "_default")) @@
                  ("resolved_at" :> Str(IsoFormat(now))) @@
                  ("roles" :> EmptyDict))) @@
              ("outcomes" :> DictMerge(Dict(
                  ("perceived" :> EmptyList) @@
                  ("objective" :> Dict(
                      ("status" :> Str("unknown")) @@
                      ("scored_criteria" :> EmptyList) @@
                      ("metrics" :> EmptyDict))) @@
                  ("perception_gap" :> Dict(
                      ("gap_score" :> Float(0)) @@
                      ("gap_class" :> Str("aligned")))) @@
                  ("model_outcome_attribution" :> Dict(
                      ("roles" :> EmptyDict) @@
                      ("kpis" :> EmptyDict)))),
                  DictGet(vcp_data, "outcomes", EmptyDict))) @@
              ("hcr" :> Dict(
                  ("audience" :> Str("system")) @@
                  ("headline" :> Str(provider_name \o " call processed")) @@
                  ("outcome_status" :> Str("success")) @@
                  ("key_points" :> EmptyList) @@
                  ("impact_metrics" :> EmptyDict))) @@
              ("artifacts" :> DictGet(vcp_data, "artifacts", EmptyDict)) @@
              ("custom" :> DictMerge(
                  Dict("provider_specific" :> Dict(provider_name :> provider_specific)),
                  integrations)) @@
              ("consent" :> Dict(
                  ("consent_id" :> Str("consent_" \o PyStr(call_id))) @@
                  ("status" :> Str("granted")) @@
                  ("scope" :> List(<<Str("recording"), Str("analytics")>>)) @@
                  ("version" :> Str("1.0")))) @@
              ("provenance" :> Dict(
                  ("source_system" :> Str(provider_name \o "_webhook_api")) @@
                  ("created_at" :> Str(IsoFormat(now))) @@
                  ("created_by" :> Str(provider_name \o "_webhook_processor")) @@
                  ("transformation_history" :> List(<<
                      Str("received_from_" \o provider_name \o "_webhook"),
                      Str("mapped_to_vcp_v0.5")>>)) @@
                  ("data_retention_policy" :> Str("standard_30_days")) @@
                  ("compliance_flags" :> EmptyList))))) @@
          ("audit" :> Dict(
              ("received_at" :> Str(IsoFormat(now))) @@
              ("schema_version" :> Str("0.5")))))

\* now is datetime.now(timezone.utc) as the call reads it and fresh_uuid the
\* identifier uuid.uuid4() yields if the call asks for one; uuids counts the
\* identifiers the call generated
map_to_vcp(provider_name, webhook_payload, now, fresh_uuid) ==
    LET \* call_id[:8]: a str or list is sliced, any other value raises TypeError
        Slice8(call_id) ==
            CASE Tag(call_id) = "str" -> Ok(Str(Prefix(Val(call_id), 8)))
              [] Tag(call_id) = "list" ->
                    Ok(List(SubSeq(Val(call_id), 1,
                                   IF Len(Val(call_id)) < 8 THEN Len(Val(call_id)) ELSE 8)))
              [] OTHER -> Raise("TypeError")
        provider == get_provider(provider_name)
        Fail(e) == [exc |-> e, val |-> None, uuids |-> 0]
    IN
    IF provider = <<>> \/ provider[1].vcp_mapping_rules = <<>>
    THEN [exc |-> "", val |-> EmptyDict, uuids |-> 0]
    ELSE Bind({
    IF Raised(mapped) THEN Fail(mapped.exc)
    ELSE
    LET vcp_data == mapped.val
        supplied_id == _get_nested_value(vcp_data, "call.call_id")
        call_id == IF Truthy(supplied_id) THEN supplied_id ELSE Str(fresh_uuid)
        uuids == IF Truthy(supplied_id) THEN 0 ELSE 1
        supplied_session == _get_nested_value(vcp_data, "call.session_id")
        sliced == IF Truthy(supplied_session) THEN Ok(None) ELSE Slice8(call_id)
    IN
    IF Raised(sliced) THEN [exc |-> sliced.exc, val |-> None, uuids |-> uuids]
    ELSE
    LET session_id == IF Truthy(supplied_session) THEN supplied_session
                      ELSE Str("sess_" \o provider_name \o "_" \o PyStr(sliced.val))
        provider_specific == _build_provider_specific_data(provider_name, webhook_payload)
        integrations == _build_integrations_data(provider_name, webhook_payload)
    IN
    IF Raised(provider_specific)
    THEN [exc |-> provider_specific.exc, val |-> None, uuids |-> uuids]
    ELSE IF Raised(integrations)
    THEN [exc |-> integrations.exc, val |-> None, uuids |-> uuids]
    ELSE [exc |-> "",
          val |-> VcpMessage(provider_name, vcp_data, call_id, session_id, now,
                             provider_specific.val, integrations.val),
          uuids |-> uuids]
    : mapped \in {ApplyRules(provider_name, webhook_payload, provider[1].vcp_mapping_rules,
                             Len(provider[1].vcp_mapping_rules))}})

----------------------------------------------------------------------------
(* The v0.5 schema: the pydantic models of vcp_v05_schema.py.  A loaded    *)
(* model instance is <<"object", fields>>, a datetime <<"datetime", secs>>. *)

Object(f) == <<"object", f>>
Datetime(t) == <<"datetime", t>>

\* default_factory=lambda: datetime.now(timezone.utc)
DefaultNow == <<"default_now", 0>>
Schema(model) ==
    LET CapabilityType == {"tool_call", "function_call", "api_call", "webhook", "integration"}
        ModelRole == {"V2V", "STT", "LLM", "TTS", "VAD", "ASR"}
        ConsentStatus == {"granted", "denied", "pending", "expired", "revoked"}
        ChannelType == {"phone", "web", "mobile", "embed", "api", "websocket", "inbound", "outbound"}
        CallDirection == {"inbound", "outbound"}
        OutcomeStatus == {"success", "failure", "partial", "timeout", "error", "unknown"}
        GapClass == {"aligned", "minor_deviation", "major_deviation", "contradictory"}
        VCPVersion == {"0.3", "0.4", "0.5"}
        \* the enums of vcp_v04_schema.py
        VCPVersionV04 == {"0.3", "0.4"}
        ConsentMethod == {"explicit", "implicit", "inferred"}
        DisconnectReason ==
            {"customer_hangup", "agent_hangup", "timeout", "technical_error", "completed", "transferred"}
        PerceptionGapClass == {"aligned", "minor", "moderate", "major"}
        \* field kinds
        KStr == <<"str">>
        KInt == <<"int">>
        KFloat == <<"float">>
        KBool == <<"bool">>
        KDatetime == <<"datetime">>
        KAny == <<"any">>
        KEnum(values) == <<"enum", values>>
        KModel(name) == <<"model", name>>
        KList(kind) == <<"list", kind>>
        \* keys = {} stands for Dict[str, ...]
        KDict(keys, kind) == <<"dict", keys, kind>>
        KUnion(k1, k2) == <<"union", k1, k2>>
        KOpt(kind) == <<"opt", kind>>
        \* an int with Field(ge=least)
        KIntGe(least) == <<"int_ge", least>>
        \* a float with Field(ge=0, le=1)
        KUnitFloat == <<"unit_float">>
        \* default_factory=lambda: str(uuid.uuid4())
        DefaultUuid == <<"default_uuid", 0>>
        \* default_factory=BusinessMetrics, ArtifactsData, CustomData
        DefaultBusinessMetrics ==
            Object([aht_sec |-> None, first_contact_resolution |-> None, first_response_sec |-> None,
                    estimated_value_usd |-> None, interruptions |-> None, handoff_performed |-> None])
        DefaultArtifactsData ==
            Object([recording_url |-> None, transcript_url |-> None, summary |-> None,
                    provider_raw_payload_ref |-> None])
        DefaultCustomData ==
            Object([provider_specific |-> EmptyDict, outcome_hint |-> None, synthetic |-> Bool(FALSE),
                    synthetic_recipe |-> None])
        \* Field(...): required
        Req(name, kind) ==
            [name |-> name, key |-> name, kind |-> kind, required |-> TRUE, default |-> None]
        \* Optional[...] = Field(None)
        Opt(name, kind) ==
            [name |-> name, key |-> name, kind |-> KOpt(kind), required |-> FALSE, default |-> None]
        \* Field(default) or Field(default_factory=...)
        Def(name, kind, default) ==
            [name |-> name, key |-> name, kind |-> kind, required |-> FALSE, default |-> default]
    IN  CASE model = "CapabilityInvocation" -> <<
                Req("capability_id", KStr), Req("capability_type", KEnum(CapabilityType)),
                Req("invoked_at", KDatetime), Opt("duration_ms", KInt), Req("success", KBool),
                Opt("error_message", KStr), Def("metadata", KDict({}, KAny), EmptyDict)>>
          [] model = "Call" -> <<
                Req("call_id", KStr), Req("session_id", KStr), Req("provider", KStr),
                Req("start_time", KDatetime), Opt("end_time", KDatetime),
                Opt("duration_sec", KInt), Opt("parent_session_id", KStr),
                Opt("correlation_id", KStr), Opt("channel", KEnum(ChannelType)),
                Opt("direction", KEnum(CallDirection)),
                [name |-> "from_", key |-> "from", kind |-> KOpt(KStr), required |-> FALSE,
                 default |-> None],
                Opt("to", KStr), Opt("caller_id", KStr), Opt("geographic_region", KStr),
                Def("capabilities_invoked",
                    KList(KUnion(KStr, KModel("CapabilityInvocation"))), EmptyList)>>
          [] model = "TelemetryPrior" -> <<
                Opt("latency_p95", KFloat), Opt("success_rate", KFloat),
                Opt("cost_per_token", KFloat), Opt("availability", KFloat)>>
          [] model = "ModelRoleInfo" -> <<
                Req("chosen", KStr), Def("alternatives", KList(KStr), EmptyList),
                Def("reason", KList(KStr), EmptyList),
                Opt("telemetry_prior", KModel("TelemetryPrior")),
                Def("fallback_used", KBool, Bool(FALSE)), Opt("selection_time_ms", KFloat)>>
          [] model = "ModelSelection" -> <<
                Req("policy_id", KStr), Req("resolved_at", KDatetime),
                Req("roles", KDict(ModelRole, KModel("ModelRoleInfo"))),
                Opt("selection_strategy", KStr), Opt("total_selection_time_ms", KFloat)>>
          [] model = "ScoredCriteria" -> <<
                Req("id", KStr), Req("met", KBool), Opt("evidence_ref", KStr),
                Opt("score", KFloat), Opt("weight", KFloat)>>
          [] model = "ObjectiveOutcome" -> <<
                Req("status", KEnum(OutcomeStatus)),
                Def("scored_criteria", KList(KModel("ScoredCriteria")), EmptyList),
                Def("metrics", KDict({}, KAny), EmptyDict),
                Opt("confidence", KFloat), Opt("assessment_time_ms", KFloat)>>
          [] model = "PerceptionGap" -> <<
                Req("gap_score", KFloat), Req("gap_class", KEnum(GapClass)),
                Opt("factors", KList(KStr)), Opt("analysis", KStr)>>
          [] model = "ModelAttributionRole" -> <<
                Req("model_id", KStr), Req("minutes", KFloat), Def("errors", KInt, Num(0)),
                Opt("tokens_processed", KInt), Opt("cost_usd", KFloat)>>
          [] model = "ModelOutcomeAttribution" -> <<
                Req("roles", KDict(ModelRole, KModel("ModelAttributionRole"))),
                Req("kpis", KDict({}, KAny)), Opt("total_cost_usd", KFloat),
                Opt("efficiency_score", KFloat)>>
          [] model = "Outcomes" -> <<
                Def("perceived", KList(KStr), EmptyList),
                Req("objective", KModel("ObjectiveOutcome")),
                Req("perception_gap", KModel("PerceptionGap")),
                Req("model_outcome_attribution", KModel("ModelOutcomeAttribution")),
                Opt("user_satisfaction_score", KFloat),
                Opt("business_impact", KDict({}, KAny))>>
          [] model = "HumanReadableContext" -> <<
                Req("audience", KStr), Req("headline", KStr),
                Req("outcome_status", KEnum(OutcomeStatus)),
                Def("key_points", KList(KStr), EmptyList),
                Def("impact_metrics", KDict({}, KAny), EmptyDict),
                Opt("summary", KStr), Opt("recommendations", KList(KStr)),
                Opt("alert_level", KEnum({"info", "warning", "critical"}))>>
          [] model = "Artifacts" -> <<
                Opt("provider_raw_payload_ref", KStr), Opt("audio_recording_ref", KStr),
                Opt("transcript_ref", KStr), Opt("system_logs_ref", KStr),
                Opt("debug_artifacts", KDict({}, KStr)),
                Opt("compliance_records", KDict({}, KStr))>>
          [] model = "CustomProviderData" -> <<Req("data", KDict({}, KAny))>>
          [] model = "Custom" -> <<
                Def("provider_specific", KDict({}, KModel("CustomProviderData")), EmptyDict),
                Opt("integrations", KDict({}, KDict({}, KAny))),
                Opt("experimental", KDict({}, KAny))>>
          [] model = "ConsentRecord" -> <<
                Req("consent_id", KStr), Req("status", KEnum(ConsentStatus)),
                Opt("granted_at", KDatetime), Opt("expires_at", KDatetime),
                Req("scope", KList(KStr)), Req("version", KStr), Opt("user_agent", KStr),
                Opt("ip_address_hash", KStr)>>
          [] model = "Provenance" -> <<
                Req("source_system", KStr),
                [name |-> "created_at", key |-> "created_at", kind |-> KDatetime,
                 required |-> FALSE, default |-> DefaultNow],
                Opt("created_by", KStr),
                Def("transformation_history", KList(KStr), EmptyList),
                Opt("data_retention_policy", KStr), Opt("compliance_flags", KList(KStr))>>
          [] model = "Audit" -> <<
                Req("received_at", KDatetime), Req("schema_version", KStr),
                Opt("processed_at", KDatetime), Opt("processing_duration_ms", KFloat),
                Opt("validation_errors", KList(KStr)), Opt("checksum", KStr)>>
          [] model = "VCPPayload" -> <<
                Req("call", KModel("Call")), Req("model_selection", KModel("ModelSelection")),
                Req("outcomes", KModel("Outcomes")), Req("hcr", KModel("HumanReadableContext")),
                Req("artifacts", KModel("Artifacts")), Req("custom", KModel("Custom")),
                Opt("consent", KModel("ConsentRecord")),
                Req("provenance", KModel("Provenance"))>>
          [] model = "VCPMessage" -> <<
                Def("vcp_version", KEnum(VCPVersion), Str("0.5")),
                Req("vcp_payload", KModel("VCPPayload")), Req("audit", KModel("Audit"))>>
          \* the models of vcp_v04_schema.py
          [] model = "v04.ProvenanceData" -> <<
                Req("captured_at", KDatetime), Req("captured_by", KStr),
                Req("source_system", KStr), Def("processing_chain", KList(KStr), EmptyList),
                Req("data_quality_score", KUnitFloat)>>
          [] model = "v04.ConsentData" -> <<
                Req("recording_consent", KBool), Req("consent_timestamp", KDatetime),
                Req("consent_method", KEnum(ConsentMethod)),
                Req("data_retention_days", KIntGe(1)), Req("sharing_allowed", KBool),
                Req("anonymization_required", KBool)>>
          [] model = "v04.CallData" -> <<
                Req("call_id", KStr), Opt("session_id", KStr), Req("provider", KStr),
                Req("start_time", KDatetime), Req("end_time", KDatetime),
                Req("duration_sec", KIntGe(0)), Opt("channel", KEnum(CallDirection)),
                Opt("to", KStr),
                [name |-> "from_", key |-> "from", kind |-> KOpt(KStr), required |-> FALSE,
                 default |-> None],
                Def("capabilities_invoked", KList(KStr), EmptyList),
                Opt("purpose_contract", KDict({}, KAny))>>
          [] model = "v04.BusinessMetrics" -> <<
                Opt("aht_sec", KInt), Opt("first_contact_resolution", KBool),
                Opt("first_response_sec", KFloat), Opt("estimated_value_usd", KFloat),
                Opt("interruptions", KIntGe(0)), Opt("handoff_performed", KBool)>>
          [] model = "v04.PerceptionGapDrivers" -> <<
                Req("gap_score", KUnitFloat), Req("gap_class", KEnum(PerceptionGapClass)),
                Def("drivers", KList(KStr), EmptyList), Opt("components", KDict({}, KFloat))>>
          [] model = "v04.ObjectiveOutcome" -> <<
                Req("status", KStr), Opt("confidence", KUnitFloat),
                Opt("disconnect_reason", KEnum(DisconnectReason)),
                Def("scored_criteria", KList(KDict({}, KAny)), EmptyList),
                Def("metrics", KModel("v04.BusinessMetrics"), DefaultBusinessMetrics)>>
          [] model = "v04.OutcomesData" -> <<
                Def("perceived", KList(KDict({}, KAny)), EmptyList),
                Req("objective", KModel("v04.ObjectiveOutcome")),
                Opt("extractions", KDict({}, KAny)),
                Opt("perception_gap", KModel("v04.PerceptionGapDrivers"))>>
          [] model = "v04.ArtifactsData" -> <<
                Opt("recording_url", KStr), Opt("transcript_url", KStr), Opt("summary", KStr),
                Opt("provider_raw_payload_ref", KStr)>>
          [] model = "v04.CustomData" -> <<
                Def("provider_specific", KDict({}, KAny), EmptyDict), Opt("outcome_hint", KStr),
                Def("synthetic", KBool, Bool(FALSE)), Opt("synthetic_recipe", KStr)>>
          [] model = "v04.AuditData" -> <<
                Req("received_at", KDatetime), Req("normalized_at", KDatetime),
                Req("schema_version", KEnum(VCPVersionV04))>>
          [] model = "v04.VCPPayload" -> <<
                Req("call", KModel("v04.CallData")), Req("outcomes", KModel("v04.OutcomesData")),
                Def("artifacts", KModel("v04.ArtifactsData"), DefaultArtifactsData),
                Opt("provenance", KModel("v04.ProvenanceData")),
                Opt("consent", KModel("v04.ConsentData")),
                Def("custom", KModel("v04.CustomData"), DefaultCustomData),
                Req("audit", KModel("v04.AuditData"))>>
          [] model = "v04.VCPMessage" -> <<
                Def("call_id", KStr, DefaultUuid),
                Def("vcp_version", KEnum(VCPVersionV04), Str("0.4")),
                Req("vcp_payload", KModel("v04.VCPPayload"))>>

----------------------------------------------------------------------------
(* Loading a model: pydantic model from a dict.  Required fields must be present, every *)
(* present field must be of its declared kind, undeclared keys are ignored *)
(* and absent optional fields take their default.  The modelled inputs     *)
(* hold no numeric strings, so a str is no int, float or bool here; a str  *)
(* is a datetime when it is the ISO text of a clock reading.               *)

Invalid == Raise("ValidationError")

RECURSIVE LoadValue(_, _, _)
RECURSIVE LoadModel(_, _, _)

LoadValue(kind, v, now) ==
    LET IsIsoText(s) == \E t \in Times : IsoFormat(t) = s
        ParseIso(s) == CHOOSE t \in Times : IsoFormat(t) = s
    IN  CASE kind[1] = "any" -> Ok(v)
          [] kind[1] = "opt" -> IF IsNone(v) THEN Ok(None) ELSE LoadValue(kind[2], v, now)
          [] kind[1] = "str" -> IF IsStr(v) THEN Ok(v) ELSE Invalid
          [] kind[1] = "int" ->
                CASE Tag(v) = "int" -> Ok(v)
                  [] Tag(v) = "bool" -> Ok(Num(IF Val(v) THEN 1 ELSE 0))
                  [] Tag(v) = "float" /\ Val(v) % 100 = 0 -> Ok(Num(Val(v) \div 100))
                  [] OTHER -> Invalid
          [] kind[1] = "int_ge" ->
                CASE Tag(v) = "int" /\ Val(v) >= kind[2] -> Ok(v)
                  [] Tag(v) = "bool" /\ (IF Val(v) THEN 1 ELSE 0) >= kind[2] ->
                        Ok(Num(IF Val(v) THEN 1 ELSE 0))
                  [] Tag(v) = "float" /\ Val(v) % 100 = 0 /\ Val(v) \div 100 >= kind[2] ->
                        Ok(Num(Val(v) \div 100))
                  [] OTHER -> Invalid
          [] kind[1] = "unit_float" ->
                CASE Tag(v) = "float" /\ Val(v) \in 0..100 -> Ok(v)
                  [] Tag(v) = "int" /\ Val(v) \in {0, 1} -> Ok(Float(100 * Val(v)))
                  [] Tag(v) = "bool" -> Ok(Float(IF Val(v) THEN 100 ELSE 0))
                  [] OTHER -> Invalid
          [] kind[1] = "float" ->
                CASE Tag(v) = "float" -> Ok(v)
                  [] Tag(v) = "int" -> Ok(Float(100 * Val(v)))
                  [] Tag(v) = "bool" -> Ok(Float(IF Val(v) THEN 100 ELSE 0))
                  [] OTHER -> Invalid
          [] kind[1] = "bool" ->
                CASE Tag(v) = "bool" -> Ok(v)
                  [] Tag(v) = "int" /\ Val(v) \in {0, 1} -> Ok(Bool(Val(v) = 1))
                  [] OTHER -> Invalid
          [] kind[1] = "datetime" ->
                CASE Tag(v) = "datetime" -> Ok(v)
                  [] Tag(v) = "int" -> Ok(Datetime(Val(v)))
                  [] Tag(v) = "float" -> Ok(Datetime(Val(v) \div 100))
                  [] Tag(v) = "str" /\ IsIsoText(Val(v)) -> Ok(Datetime(ParseIso(Val(v))))
                  [] OTHER -> Invalid
          [] kind[1] = "enum" -> IF IsStr(v) /\ Val(v) \in kind[2] THEN Ok(v) ELSE Invalid
          [] kind[1] = "model" ->
                CASE Tag(v) = "object" -> Ok(v)
                  [] Tag(v) = "dict" -> LoadModel(kind[2], v, now)
                  [] OTHER -> Invalid
          [] kind[1] = "list" ->
                IF Tag(v) # "list" THEN Invalid
                ELSE Bind({IF \E i \in 1..Len(Val(v)) : Raised(rs[i]) THEN Invalid
                           ELSE Ok(List([i \in 1..Len(Val(v)) |-> rs[i].val]))
                           : rs \in {[i \in 1..Len(Val(v)) |-> LoadValue(kind[2], Val(v)[i], now)]}})
          [] kind[1] = "dict" ->
                IF ~IsDict(v) THEN Invalid
                ELSE IF kind[2] # {} /\ ~(DOMAIN Val(v) \subseteq kind[2]) THEN Invalid
                ELSE Bind({IF \E k \in DOMAIN Val(v) : Raised(rs[k]) THEN Invalid
                           ELSE Ok(Dict([k \in DOMAIN Val(v) |-> rs[k].val]))
                           : rs \in {[k \in DOMAIN Val(v) |-> LoadValue(kind[3], Val(v)[k], now)]}})
          [] kind[1] = "union" ->
                Bind({IF Raised(first) THEN LoadValue(kind[3], v, now) ELSE first
                      : first \in {LoadValue(kind[2], v, now)}})

LoadModel(model, data, now) ==
    Bind({Bind({IF \E i \in 1..Len(fields) : Raised(rs[i]) THEN Invalid
                ELSE Ok(Object([name \in {fields[i].name : i \in 1..Len(fields)} |->
                                  rs[CHOOSE i \in 1..Len(fields) : fields[i].name = name].val]))
                : rs \in {[i \in 1..Len(fields) |->
                             IF fields[i].key \in DOMAIN Val(data)
                             THEN LoadValue(fields[i].kind, Val(data)[fields[i].key], now)
                             ELSE IF fields[i].required THEN Invalid
                             ELSE IF fields[i].default = DefaultNow THEN Ok(Datetime(now))
                             ELSE Ok(fields[i].default)]}})
          : fields \in {Schema(model)}})

\* the VCPMessage constructor with VCPMessage.validate_version_compatibility
VCPMessage(data, now) ==
    Bind({IF Raised(loaded) THEN loaded
          ELSE LET payload == Val(Val(loaded.val).vcp_payload) IN
               IF Val(loaded.val).vcp_version = Str("0.3")
                  /\ (~IsNone(payload.consent) \/ ~IsNone(payload.provenance))
               THEN Invalid
               ELSE loaded
          : loaded \in {LoadModel("VCPMessage", data, now)}})

----------------------------------------------------------------------------
(* Validator: VCPValidator.validate_v05 *)

\* the capability loop, from element i on: a dict element is loaded as a
\* CapabilityInvocation, which may raise
RECURSIVE CapabilityWarnings(_, _, _, _)
CapabilityWarnings(capabilities, i, start_time, now) ==
    IF i > Len(capabilities) THEN Ok(<<>>)
    ELSE LET rest == CapabilityWarnings(capabilities, i + 1, start_time, now) IN
         IF ~IsDict(capabilities[i]) THEN rest
         ELSE LET cap_obj == LoadModel("CapabilityInvocation", capabilities[i], now) IN
              IF Raised(cap_obj) THEN cap_obj
              ELSE IF Val(Val(cap_obj.val).invoked_at) < Val(start_time)
              THEN IF Raised(rest) THEN rest
                   ELSE Ok(<<"Capability " \o Val(Val(cap_obj.val).capability_id)
                              \o " invoked before call start">> \o rest.val)
              ELSE rest

\* validate_v05 that takes an end_time equal to start_time for an early one
ValidateV05EndNotAfterStart(message, now) ==
    LET payload == Val(Val(message).vcp_payload)
        call == Val(payload.call)
        timeErrors ==
            IF ~IsNone(call.end_time) /\ ~IsNone(call.start_time)
               /\ Val(call.end_time) <= Val(call.start_time)
            THEN <<"Call end_time cannot be before start_time">> ELSE <<>>
        capWarnings ==
            CapabilityWarnings(Val(call.capabilities_invoked), 1, call.start_time, now)
        consentStatus == IF IsNone(payload.consent) THEN "" ELSE Val(Val(payload.consent).status)
    IN  IF Raised(capWarnings)
        THEN [errors |-> timeErrors \o <<"Validation error: " \o capWarnings.exc>>,
              warnings |-> <<>>]
        ELSE [errors |-> timeErrors \o
                         (IF consentStatus = "revoked"
                          THEN <<"Cannot process data with revoked consent">> ELSE <<>>),
              warnings |-> capWarnings.val \o
                           (IF consentStatus = "expired"
                            THEN <<"User consent has expired">> ELSE <<>>)]

\* message is a loaded VCPMessage
validate_v05(message, now) ==
    LET payload == Val(Val(message).vcp_payload)
        call == Val(payload.call)
        timeErrors ==
            IF ~IsNone(call.end_time) /\ ~IsNone(call.start_time)
               /\ Val(call.end_time) < Val(call.start_time)
            THEN <<"Call end_time cannot be before start_time">> ELSE <<>>
        capWarnings ==
            CapabilityWarnings(Val(call.capabilities_invoked), 1, call.start_time, now)
        consentStatus == IF IsNone(payload.consent) THEN "" ELSE Val(Val(payload.consent).status)
    IN  IF Raised(capWarnings)
        THEN [errors |-> timeErrors \o <<"Validation error: " \o capWarnings.exc>>,
              warnings |-> <<>>]
        ELSE [errors |-> timeErrors \o
                         (IF consentStatus = "revoked"
                          THEN <<"Cannot process data with revoked consent">> ELSE <<>>),
              warnings |-> capWarnings.val \o
                           (IF consentStatus = "expired"
                            THEN <<"User consent has expired">> ELSE <<>>)]

\* test_webhook_transformation: the validation of a non-empty map result
ValidationResults(vcp_result, now) ==
    LET vcp_message == VCPMessage(vcp_result, now) IN
    IF Raised(vcp_message) THEN [errors |-> <<vcp_message.exc>>, warnings |-> <<>>]
    ELSE validate_v05(vcp_message.val, now)

----------------------------------------------------------------------------
(* Version upgrade and downgrade: VCPValidator.upgrade_from_v03 and         *)
(* VCPMessage.to_v03_compatible of vcp_v05_schema.py, and                   *)
(* VCPValidator.upgrade_v03_to_v04 of vcp_v04_schema.py.  The upgrades      *)
(* work on the caller's dict: their outcome carries, next to the returned  *)
(* message, the dict as the call leaves it.  capabilities_invoked is a      *)
(* list wherever it is present.                                             *)

\* del d[key]
DictDel(d, key) == Dict(Restrict(Val(d), DOMAIN Val(d) \ {key}))

\* the loop building enhanced_caps
EnhancedCaps(capabilities, call) ==
    [i \in 1..Len(capabilities) |->
        IF IsStr(capabilities[i])
        THEN Dict(("capability_id" :> capabilities[i]) @@
                  ("capability_type" :> Str("tool_call")) @@
                  ("invoked_at" :> Val(call)["start_time"]) @@
                  ("success" :> Bool(TRUE)))
        ELSE capabilities[i]]

\* upgrade_from_v03 up to the VCPMessage constructor: the dict after the
\* version, provenance and capability steps, or the exception that ends them
UpgradeSteps(v03_data, now) ==
    LET versioned == DictPut(v03_data, "vcp_version", Str("0.5"))
        Fail(e, d) == [exc |-> e, val |-> None, v03_data |-> d]
        payload == DictGet(v03_data, "vcp_payload", EmptyDict)
        needsProvenance == "provenance" \notin DOMAIN Val(payload)
        call == DictGet(payload, "call", EmptyDict)
        provenance ==
            Dict(("source_system" :> DictGet(call, "provider", None)) @@
                 ("created_at" :> Str(IsoFormat(now))) @@
                 ("transformation_history" :> List(<<Str("upgraded_from_v0.3")>>)))
        payload2 == IF needsProvenance THEN DictPut(payload, "provenance", provenance)
                    ELSE payload
        capabilities == DictGet(call, "capabilities_invoked", EmptyList)
        call2 == IF Truthy(capabilities)
                 THEN DictPut(call, "capabilities_invoked",
                              List(EnhancedCaps(Val(capabilities), call)))
                 ELSE call
    IN  IF needsProvenance /\ "vcp_payload" \notin DOMAIN Val(v03_data)
        THEN Fail("KeyError", versioned)
        ELSE IF "call" \notin DOMAIN Val(payload)
        THEN Fail("KeyError", versioned)
        ELSE IF needsProvenance /\ "provider" \notin DOMAIN Val(call)
        THEN Fail("KeyError", versioned)
        ELSE IF Truthy(capabilities) /\ "start_time" \notin DOMAIN Val(call)
                /\ \E i \in 1..Len(Val(capabilities)) : IsStr(Val(capabilities)[i])
        THEN Fail("KeyError", DictPut(versioned, "vcp_payload", payload2))
        ELSE [exc |-> "", val |-> None,
              v03_data |-> DictPut(versioned, "vcp_payload",
                                   DictPut(payload2, "call", call2))]

\* the outcome's val is the loaded v0.5 message
upgrade_from_v03(v03_data, now) ==
    Bind({IF Raised(steps) THEN steps
          ELSE Bind({[exc |-> loaded.exc, val |-> loaded.val, v03_data |-> steps.v03_data]
                     : loaded \in {VCPMessage(steps.v03_data, now)}})
          : steps \in {UpgradeSteps(v03_data, now)}})

\* model_dump(): models become dicts keyed by field name, enum members and
\* datetimes stay as they are
RECURSIVE ModelDump(_)
ModelDump(x) ==
    CASE Tag(x) = "object" -> Dict([k \in DOMAIN Val(x) |-> ModelDump(Val(x)[k])])
      [] Tag(x) = "dict" -> Dict([k \in DOMAIN Val(x) |-> ModelDump(Val(x)[k])])
      [] Tag(x) = "list" -> List([i \in 1..Len(Val(x)) |-> ModelDump(Val(x)[i])])
      [] OTHER -> x

\* simple_capabilities: the elements that are a dict with a capability_id or a
\* str, in order
RECURSIVE SimpleCapabilities(_, _)
SimpleCapabilities(capabilities, i) ==
    IF i > Len(capabilities) THEN <<>>
    ELSE (IF IsDict(capabilities[i]) /\ "capability_id" \in DOMAIN Val(capabilities[i])
          THEN <<Val(capabilities[i])["capability_id"]>>
          ELSE IF IsStr(capabilities[i]) THEN <<capabilities[i]>>
          ELSE <<>>)
         \o SimpleCapabilities(capabilities, i + 1)

\* a to_v03_compatible that keeps the capability records as they are
ToV03KeepingRecords(self) ==
    LET data == ModelDump(self)
        payload == DictDel(DictDel(Val(data)["vcp_payload"], "consent"), "provenance")
    IN  DictPut(DictPut(data, "vcp_payload", payload), "vcp_version", Str("0.3"))

\* self is a loaded v0.5 message; the result is a dict
to_v03_compatible(self) ==
    LET data == ModelDump(self)
        payload == DictDel(DictDel(Val(data)["vcp_payload"], "consent"), "provenance")
        call == Val(payload)["call"]
        capabilities == DictGet(call, "capabilities_invoked", EmptyList)
        call2 == IF "capabilities_invoked" \in DOMAIN Val(call)
                    /\ Tag(capabilities) = "list" /\ Truthy(capabilities)
                 THEN DictPut(call, "capabilities_invoked",
                              List(SimpleCapabilities(Val(capabilities), 1)))
                 ELSE call
    IN  DictPut(DictPut(data, "vcp_payload", DictPut(payload, "call", call2)),
                "vcp_version", Str("0.3"))

\* the v0.4 VCPMessage constructor; call_id defaults to a fresh uuid
VCPMessageV04(data, now, fresh_uuid) ==
    LoadModel("v04.VCPMessage",
              IF "call_id" \in DOMAIN Val(data) THEN data
              ELSE DictPut(data, "call_id", Str(fresh_uuid)),
              now)

\* upgrade_v03_to_v04 up to the VCPMessage constructor
UpgradeV04Steps(v03_message, now) ==
    LET payload == DictGet(v03_message, "vcp_payload", EmptyDict)
        call == DictGet(payload, "call", EmptyDict)
        provenance ==
            Dict(("captured_at" :> Str(IsoFormat(now))) @@
                 ("captured_by" :> Str("vcp_upgrade_utility")) @@
                 ("source_system" :> DictGet(call, "provider", Str("unknown"))) @@
                 ("processing_chain" :> List(<<Str("vcp_v03_to_v04_upgrade")>>)) @@
                 ("data_quality_score" :> Float(80)))
        consent ==
            Dict(("recording_consent" :> Bool(FALSE)) @@
                 ("consent_timestamp" :> Str(IsoFormat(now))) @@
                 ("consent_method" :> Str("inferred")) @@
                 ("data_retention_days" :> Num(30)) @@
                 ("sharing_allowed" :> Bool(FALSE)) @@
                 ("anonymization_required" :> Bool(TRUE)))
        payload2 == IF "provenance" \notin DOMAIN Val(payload)
                    THEN DictPut(payload, "provenance", provenance) ELSE payload
        payload3 == IF "consent" \notin DOMAIN Val(payload)
                    THEN DictPut(payload2, "consent", consent) ELSE payload2
    IN  IF "vcp_payload" \notin DOMAIN Val(v03_message)
        THEN [exc |-> "KeyError", val |-> None, v03_message |-> v03_message]
        ELSE [exc |-> "", val |-> None,
              v03_message |-> DictPut(DictPut(v03_message, "vcp_payload", payload3),
                                      "vcp_version", Str("0.4"))]

\* the outcome's val is the loaded v0.4 message; uuids counts the identifiers
\* the call generated
upgrade_v03_to_v04(v03_message, now, fresh_uuid) ==
    Bind({IF Raised(steps)
          THEN [exc |-> steps.exc, val |-> None, v03_message |-> steps.v03_message,
                uuids |-> 0]
          ELSE Bind({[exc |-> loaded.exc, val |-> loaded.val,
                      v03_message |-> steps.v03_message,
                      uuids |-> IF "call_id" \in DOMAIN Val(v03_message) THEN 0 ELSE 1]
                     : loaded \in {VCPMessageV04(steps.v03_message, now, fresh_uuid)}})
          : steps \in {UpgradeV04Steps(v03_message, now)}})

----------------------------------------------------------------------------
(* Inputs of the path accessor *)

OptKey(key, values) == {<<>>} \cup {(key :> v) : v \in values}

PathContainers ==
    LET PathLevel2 ==
            LET PathLeaves == {Str("s"), Num(5), None, List(<<Str("b")>>)}
                PathLevel1 == PathLeaves \cup {Dict(f) : f \in OptKey("c", PathLeaves)}
            IN            PathLeaves \cup
                {Dict(f @@ g) : f \in OptKey("b", PathLevel1), g \in OptKey("z", {Str("kept")})}
    IN  {Dict(f @@ g) : f \in OptKey("a", PathLevel2), g \in OptKey("z", {Str("kept")})}

\* paths by their segments; the accessor is handed the segments joined by '.'
PathSegments ==
    {<<"a">>, <<"a", "b">>, <<"a", "b", "c">>, <<"z">>, <<"a", "z">>, <<"b", "c">>,
     <<"">>, <<"a", "", "c">>}

RECURSIVE JoinDots(_)
JoinDots(segments) ==
    IF Len(segments) = 1 THEN segments[1]
    ELSE segments[1] \o "." \o JoinDots(Tail(segments))

----------------------------------------------------------------------------
(* Inputs of the signature check *)

SigBodies == {"{}", ".{}"}
SigTimestamps == {"1", "1."}
SigSecrets == {Str("k1"), Str("k2"), None}

SigHashes ==
    {HmacSha256Hex(Val(k), t \o "." \o b) :
        k \in SigSecrets \ {None}, t \in SigTimestamps, b \in SigBodies}
    \cup {HmacSha256Hex("k1", "1{}"), "bad"}

\* 't=<timestamp>,v0=<hash>'
WellFormedHeader(t, h) == "t=" \o t \o ",v0=" \o h

----------------------------------------------------------------------------
(* Inputs of the value transforms *)

----------------------------------------------------------------------------
(* Inputs of the mapper *)

MapProviderIds == ProviderNames \cup {"Assistable", "unknown"}

\* the provider paths of the rules, and the paths leading to them
FieldPaths(rules) ==
    LET \* all non-empty proper and improper prefixes of a segment sequence
        Prefixes(segments) == {SubSeq(segments, 1, n) : n \in 1..Len(segments)}
    IN  UNION {Prefixes(Split(rules[i][1], ".")) : i \in 1..Len(rules)}

RECURSIVE Edited(_, _, _)
Edited(bases, paths, n) ==
    LET \* the producer's write of one field: intermediate maps are made as needed
        RECURSIVE WithField(_, _, _)
        WithField(payload, segments, value) ==
            LET base == IF IsDict(payload) THEN payload ELSE EmptyDict IN
            IF Len(segments) = 1 THEN DictPut(base, segments[1], value)
            ELSE DictPut(base, segments[1],
                         WithField(DictGet(base, segments[1], EmptyDict), Tail(segments), value))
        FieldValues ==
            {Str("abc12345xyz"), Str(""), Num(5), Bool(TRUE), EmptyDict, None}
    IN  IF n = 0 THEN bases
        ELSE LET prev == Edited(bases, paths, n - 1) IN
             prev \cup {WithField(p, path, v) : p \in prev, path \in paths, v \in FieldValues}

\* payloads a producer may send under a provider id: an empty payload with up
\* to MaxFields fields set, the registry's example with at most one field
\* set anew, or no map at all
Payloads(provider_id) ==
    LET provider == get_provider(provider_id) IN
    IF provider = <<>> THEN {EmptyDict, Example_retell}
    ELSE Edited({EmptyDict}, FieldPaths(provider[1].vcp_mapping_rules), MaxFields)
         \cup Edited({provider[1].example_payload},
                     FieldPaths(provider[1].vcp_mapping_rules), 1)
         \cup {List(<<Str("x")>>)}

----------------------------------------------------------------------------
(* Inputs of the upgrades and the downgrade *)

StartText == Str(IsoFormat(FirstInstant))

\* call sections in the layout of vcp_v05_schema.py
V03Calls ==
    LET CapabilityLists ==
            LET \* a structured capability record as a producer writes it
                CapabilityRecord ==
                    Dict(("capability_id" :> Str("sms_send")) @@ ("capability_type" :> Str("api_call")) @@
                         ("invoked_at" :> StartText) @@ ("success" :> Bool(TRUE)))
            IN  {EmptyList, List(<<Str("crm_lookup")>>), List(<<Str("crm_lookup"), Str("calendar")>>),
                 List(<<CapabilityRecord, Str("crm_lookup")>>), List(<<Num(5)>>)}
    IN  {Dict(("call_id" :> Str("call-1")) @@ ("session_id" :> Str("sess-1")) @@
              ("provider" :> Str("retell")) @@ ("start_time" :> StartText) @@ caps @@ from @@ purpose) :
            caps \in OptKey("capabilities_invoked", CapabilityLists),
            from \in OptKey("from", {Str("+15550100")}),
            purpose \in OptKey("purpose_contract", {Dict("goal" :> Str("booking"))})}
        \cup {Dict(("call_id" :> Str("call-1")) @@ ("session_id" :> Str("sess-1")) @@
                   ("provider" :> Str("retell")) @@
                   ("capabilities_invoked" :> List(<<Str("crm_lookup")>>))),
              Dict(("call_id" :> Str("call-1")) @@ ("session_id" :> Str("sess-1")) @@
                   ("start_time" :> StartText))}

\* the sections a v0.5 payload requires besides call and provenance
V03Sections ==
    ("model_selection" :> Dict(("policy_id" :> Str("default")) @@
                               ("resolved_at" :> StartText) @@ ("roles" :> EmptyDict))) @@
    ("outcomes" :> Dict(
        ("objective" :> Dict("status" :> Str("success"))) @@
        ("perception_gap" :> Dict(("gap_score" :> Float(0)) @@ ("gap_class" :> Str("aligned")))) @@
        ("model_outcome_attribution" :> Dict(("roles" :> EmptyDict) @@ ("kpis" :> EmptyDict))))) @@
    ("hcr" :> Dict(("audience" :> Str("system")) @@ ("headline" :> Str("call")) @@
                   ("outcome_status" :> Str("success")))) @@
    ("artifacts" :> EmptyDict) @@
    ("custom" :> EmptyDict)

ExistingProvenance ==
    Dict(("source_system" :> Str("legacy_import")) @@
         ("transformation_history" :> List(<<Str("imported")>>)))

ExistingConsent ==
    Dict(("consent_id" :> Str("consent-1")) @@ ("status" :> Str("denied")) @@
         ("scope" :> List(<<Str("recording")>>)) @@ ("version" :> Str("1.0")))

V03Audit == Dict(("received_at" :> StartText) @@ ("schema_version" :> Str("0.3")))

\* v0.3 messages handed to upgrade_from_v03, and three that lack a part
V03Messages ==
    {Dict(("vcp_version" :> Str("0.3")) @@
          ("vcp_payload" :> Dict(("call" :> call) @@ V03Sections @@ provenance @@ consent)) @@
          ("audit" :> V03Audit)) :
        call \in V03Calls,
        provenance \in OptKey("provenance", {ExistingProvenance}),
        consent \in OptKey("consent", {ExistingConsent})}
    \cup {Dict(("vcp_version" :> Str("0.3")) @@ ("audit" :> V03Audit)),
          Dict(("vcp_version" :> Str("0.3")) @@ ("vcp_payload" :> Dict(V03Sections)) @@
               ("audit" :> V03Audit)),
          Dict(("vcp_version" :> Str("0.3")) @@
               ("vcp_payload" :> Dict("call" :> CHOOSE c \in V03Calls :
                                        DOMAIN Val(c) = {"call_id", "session_id", "provider",
                                                         "start_time"})) @@
               ("audit" :> V03Audit))}

\* loaded v0.5 messages: the messages upgrade_from_v03 returns and the ones
\* VCPMessage(**document) builds
V05Messages ==
    LET \* v0.5 documents that name their capabilities as strings, as records or both;
        \* their audit section names the schema version of the producer, as the
        \* message of map_to_vcp does ("0.5"), or the one of a v0.3 source
        V05Documents ==
            {Dict(("vcp_version" :> Str("0.5")) @@
                  ("vcp_payload" :> Dict(("call" :> call) @@ V03Sections @@
                                         ("provenance" :> ExistingProvenance) @@ consent)) @@
                  ("audit" :> audit)) :
                audit \in {V03Audit, DictPut(V03Audit, "schema_version", Str("0.5"))},
                call \in {c \in V03Calls : {"capabilities_invoked", "from", "start_time"}
                                                \subseteq DOMAIN Val(c)
                                            /\ "purpose_contract" \notin DOMAIN Val(c)},
                consent \in OptKey("consent", {ExistingConsent})}
    IN  {r.val : r \in {u \in {upgrade_from_v03(m, FirstInstant) : m \in V03Messages} :
                            ~Raised(u)}}
        \cup {r.val : r \in {u \in {VCPMessage(d, FirstInstant) : d \in V05Documents} :
                                 ~Raised(u)}}

\* v0.3 messages handed to upgrade_v03_to_v04, and one without a payload
V03MessagesV04 ==
    LET \* call sections in the layout of vcp_v04_schema.py
        V04Calls ==
            {Dict(("call_id" :> Str("call-1")) @@ ("start_time" :> StartText) @@
                  ("end_time" :> StartText) @@ ("duration_sec" :> Num(0)) @@ provider @@ caps) :
                provider \in OptKey("provider", {Str("retell")}),
                caps \in OptKey("capabilities_invoked", {List(<<Str("crm_lookup")>>)})}
        V04Provenance ==
            Dict(("captured_at" :> StartText) @@ ("captured_by" :> Str("legacy_import")) @@
                 ("source_system" :> Str("retell")) @@ ("data_quality_score" :> Float(100)))
        V04Consent ==
            Dict(("recording_consent" :> Bool(TRUE)) @@ ("consent_timestamp" :> StartText) @@
                 ("consent_method" :> Str("explicit")) @@ ("data_retention_days" :> Num(90)) @@
                 ("sharing_allowed" :> Bool(FALSE)) @@ ("anonymization_required" :> Bool(FALSE)))
    IN  {Dict(("vcp_version" :> Str("0.3")) @@ id @@
              ("vcp_payload" :> Dict(
                  ("call" :> call) @@
                  ("outcomes" :> Dict("objective" :> Dict("status" :> Str("success")))) @@
                  ("audit" :> Dict(("received_at" :> StartText) @@ ("normalized_at" :> StartText) @@
                                   ("schema_version" :> Str("0.3")))) @@
                  provenance @@ consent))) :
            id \in OptKey("call_id", {Str("call-1")}),
            call \in V04Calls,
            provenance \in OptKey("provenance", {V04Provenance}),
            consent \in OptKey("consent", {V04Consent})}
        \cup {Dict("vcp_version" :> Str("0.3"))}

----------------------------------------------------------------------------
(* Synthetic generator: VCPSyntheticGenerator.  A datetime of the generator *)
(* is an aware UTC instant, counted in microseconds.                        *)

\* start_time.strftime("%Y-%m-%dT%H:%M:%S.%f")[:-3] + "Z": the last three of
\* the six microsecond digits are cut off; the date and time digits are
\* abbreviated to the count of whole milliseconds
StrftimeMillisZ(t) == "T" \o ToString(t \div 1000) \o "Z"

\* the CallInfo of a generated call, as the model keeps it: the timestamps
\* are strings that end with "Z", which CallInfo.validate_timestamp accepts
_build_call_info(call_id, session_id, provider, start_time) ==
    Dict(("call_id" :> Str(call_id)) @@ ("session_id" :> Str(session_id)) @@
         ("provider" :> Str(provider)) @@
         ("start_time" :> Str(StrftimeMillisZ(start_time))))

\* the wrapper of one call; fresh_uuid is what uuid.uuid4() yields
generate_vcp_payload(call_time, provider, fresh_uuid) ==
    Dict(("call_id" :> Str(fresh_uuid)) @@ ("vcp_version" :> Str("0.3")) @@
         ("vcp_payload" :> Dict("call" :>
             _build_call_info(fresh_uuid, fresh_uuid \o "-session", provider, call_time))))

\* the instants of the generator's inputs, in microseconds after a full second
GeneratorInstants == {0, 500, 1000}

\* list(generate_call_batch(...)): the set of batches the random draws allow.
\* random.random() * time_delta is any part of the window, so call_time is any
\* instant from start_date to end_date; random.choice picks any requested
\* provider and raises IndexError on an empty list (provider_list is the
\* providers argument).  uuid_count is the number
\* of identifiers handed out before the call.
generate_call_batch(count, start_date, end_date, provider_list, uuid_count) ==
    LET requested == IF IsNone(provider_list) THEN <<"retell", "vapi", "bland">>
                     ELSE [i \in DOMAIN Val(provider_list) |-> Val(Val(provider_list)[i])]
        call_times == {t \in GeneratorInstants : start_date <= t /\ t <= end_date}
    IN  IF count > 0 /\ requested = <<>> THEN {Raise("IndexError")}
        ELSE {Ok(List([i \in 1..count |->
                         generate_vcp_payload(draws[i][1], requested[draws[i][2]],
                                              Uuid4(uuid_count + i))])) :
                draws \in [1..count -> call_times \X DOMAIN requested]}

----------------------------------------------------------------------------
(* Inputs of the constructor and the validator *)

\* v0.5 documents: the call starts and ends at instants of the clock, names a
\* capability record invoked at one of them, and the payload has a consent
\* record of some status or none, and a provenance section or none
ValidationDocuments ==
    LET Instant(t) == Str(IsoFormat(t))
        Invocation(t) ==
            Dict(("capability_id" :> Str("sms_send")) @@ ("capability_type" :> Str("api_call")) @@
                 ("invoked_at" :> Instant(t)) @@ ("success" :> Bool(TRUE)))
        Calls ==
            {Dict(("call_id" :> Str("call-1")) @@ ("session_id" :> Str("sess-1")) @@
                  ("provider" :> Str("retell")) @@ ("start_time" :> Instant(start)) @@ end @@ caps) :
                start \in Times,
                end \in OptKey("end_time", {Instant(t) : t \in Times}),
                caps \in OptKey("capabilities_invoked",
                                {List(<<Invocation(t)>>) : t \in Times}
                                \cup {List(<<Str("crm_lookup"), Invocation(FirstInstant)>>)})}
        Consents ==
            {Dict(("consent_id" :> Str("consent-1")) @@ ("status" :> Str(status)) @@
                  ("scope" :> List(<<Str("recording")>>)) @@ ("version" :> Str("1.0"))) :
                status \in {"granted", "revoked", "expired"}}
    IN  {Dict(("vcp_version" :> Str("0.5")) @@
              ("vcp_payload" :> Dict(("call" :> call) @@ V03Sections @@ provenance @@ consent)) @@
              ("audit" :> V03Audit)) :
            call \in Calls,
            provenance \in OptKey("provenance", {ExistingProvenance}),
            consent \in OptKey("consent", Consents)}

\* the messages the constructor builds of them
ValidationMessages ==
    {r.val : r \in {u \in {VCPMessage(d, FirstInstant) : d \in ValidationDocuments} :
                        ~Raised(u)}}

----------------------------------------------------------------------------
(* Operations.  The engine is request scoped: a caller invokes one          *)
(* operation and takes its result; only the uuid generator carries state   *)
(* from one call to the next.                                              *)

Idle == op = "idle"

Init ==
    /\ op = "idle"
    /\ args = <<>>
    /\ result = Ok(None)
    /\ uuidCount = 0

Get ==
    /\ Idle
    /\ \E c \in PathContainers, segments \in PathSegments :
        /\ op' = "get"
        /\ args' = [container |-> c, segments |-> segments]
        /\ result' = [exc |-> "", val |-> _get_nested_value(c, JoinDots(segments)),
                      container |-> c]
    /\ UNCHANGED uuidCount

Set ==
    LET PathValues == {Str("v"), None, Dict("q" :> Num(1))}
    IN  /\ Idle
        /\ \E c \in PathContainers, segments \in PathSegments, v \in PathValues :
            /\ op' = "set"
            /\ args' = [container |-> c, segments |-> segments, value |-> v]
            /\ result' = _set_nested_value(c, JoinDots(segments), v)
        /\ UNCHANGED uuidCount

Transform ==
    LET SalesData ==
            {Dict(d @@ b @@ t) :
                d \in OptKey("decision_maker", {Bool(TRUE), Bool(FALSE), Str("yes"), Num(1)}),
                b \in OptKey("budget_range",
                             {Str("$500-1000"), Str("Budget approved"), Str("none"), Num(1000)}),
                t \in OptKey("purchase_timeline",
                             {Str("within_30_days"), Str("within 30 days"), Str("Immediate"),
                              Str("urgent, this quarter"), Str("next quarter"), Str("90 days"),
                              Str("someday"), Num(30)})}
        TransformInputs ==
            LET NonStrings == {Num(5), Num(0), Bool(TRUE), Float(50), EmptyDict, List(<<Str("positive")>>)}
                TransformStrings ==
                    {"very_positive", "positive", "slightly_positive", "neutral", "slightly_negative",
                     "negative", "very_negative", "Slightly_Positive", "POSITIVE", "", "great",
                     "inbound", "outbound", "web", "api", "websocket", "Inbound", "WEB", "sms",
                     "completed", "user_hangup", "Call_Finished", "success", "timeout", "no_answer",
                     "line busy, no answer", "customer completed booking after transfer",
                     "connection error", "call failed", "partial", "incomplete", "incompleted",
                     "busy after success", "partial connection timeout", "voicemail"}
            IN  {Str(x) : x \in TransformStrings} \cup NonStrings
    IN  /\ Idle
        /\ \/ \E name \in {"sentiment", "direction", "disconnection"}, v \in TransformInputs :
                /\ args' = [name |-> name, value |-> v]
                /\ result' = CASE name = "sentiment" -> _convert_sentiment_to_score(v)
                               [] name = "direction" -> _convert_direction_to_channel(v)
                               [] name = "disconnection" -> _convert_disconnection_to_status(v)
           \/ \E sales_data \in SalesData :
                /\ args' = [name |-> "qualification", value |-> sales_data]
                /\ result' = Ok(_calculate_qualification_score(sales_data))
        /\ op' = "transform"
        /\ UNCHANGED uuidCount

ValidateSignature ==
    LET SigProviderIds == ProviderNames \cup {"ElevenLabs", "RETELL", "unknown"}
        MalformedHeaders ==
            {"", "t=1", "t=1,v0", "t,v0=bad", "bad", ",", "=,=",
             "t=1=2,v0=bad=x", "t=1,v0=bad,v1=x", "=1,=bad"}
    IN  /\ Idle
        /\ \E id \in SigProviderIds, body \in SigBodies, secret \in SigSecrets :
           \E header \in MalformedHeaders \cup
                        {WellFormedHeader(t, h) : t \in SigTimestamps, h \in SigHashes} :
            /\ op' = "signature"
            /\ args' = [provider_name |-> id, payload |-> body, signature |-> header,
                        secret |-> secret]
            /\ result' = validate_webhook_signature(id, body, header, secret)
        /\ UNCHANGED uuidCount

Map ==
    /\ Idle
    /\ \E id \in MapProviderIds, now \in Times :
       \E payload \in Payloads(id) :
       \E r \in {map_to_vcp(id, payload, now, Uuid4(uuidCount + 1))} :
        /\ uuidCount + r.uuids <= MaxUuid
        /\ op' = "map"
        /\ args' = [provider_name |-> id, webhook_payload |-> payload, now |-> now]
        /\ result' = [exc |-> r.exc, val |-> r.val]
        /\ uuidCount' = uuidCount + r.uuids

TestWebhookTransformation ==
    LET \* test_webhook_transformation of the dashboard: map, then load the result as
        \* a VCPMessage and validate it; an empty map result is answered with an error
        TestPayloads(provider_id) ==
            {EmptyDict} \cup {providers[n].example_payload : n \in ProviderNames}
    IN  /\ Idle
        /\ \E id \in MapProviderIds, now \in Times :
           \E payload \in TestPayloads(id) :
           \E r \in {map_to_vcp(id, payload, now, Uuid4(uuidCount + 1))} :
            /\ uuidCount + r.uuids <= MaxUuid
            /\ op' = "test_webhook_transformation"
            /\ args' = [provider_name |-> id, webhook_payload |-> payload, now |-> now]
            /\ result' = [exc |-> r.exc, val |-> r.val,
                          validation |->
                            IF Raised(r) THEN [errors |-> <<r.exc>>, warnings |-> <<>>]
                            ELSE IF ~Truthy(r.val)
                            THEN [errors |-> <<"No VCP mapping rules found for provider">>,
                                  warnings |-> <<>>]
                            ELSE ValidationResults(r.val, now)]
            /\ uuidCount' = uuidCount + r.uuids

UpgradeFromV03 ==
    /\ Idle
    /\ \E v03_data \in V03Messages, now \in Times :
        /\ op' = "upgrade_from_v03"
        /\ args' = [v03_data |-> v03_data, now |-> now]
        /\ result' = upgrade_from_v03(v03_data, now)
    /\ UNCHANGED uuidCount

UpgradeV03ToV04 ==
    /\ Idle
    /\ \E v03_message \in V03MessagesV04, now \in Times :
       \E r \in {upgrade_v03_to_v04(v03_message, now, Uuid4(uuidCount + 1))} :
        /\ uuidCount + r.uuids <= MaxUuid
        /\ op' = "upgrade_v03_to_v04"
        /\ args' = [v03_message |-> v03_message, now |-> now]
        /\ result' = [exc |-> r.exc, val |-> r.val, v03_message |-> r.v03_message]
        /\ uuidCount' = uuidCount + r.uuids

\* the outcome carries, next to the returned dict, the message as the call
\* leaves it: model_dump() copies, the message itself is not written
ToV03Compatible ==
    /\ Idle
    /\ \E self \in V05Messages :
        /\ op' = "to_v03_compatible"
        /\ args' = [self |-> self]
        /\ result' = [exc |-> "", val |-> to_v03_compatible(self), self |-> self]
    /\ UNCHANGED uuidCount

\* list(generator.generate_call_batch(count, start_date, end_date, providers))
\* for a window that does not end before it starts
GenerateCallBatch ==
    LET ProviderRequests ==
            {None, List(<<Str("retell"), Str("vapi")>>), List(<<Str("bland")>>), EmptyList}
    IN  /\ Idle
        /\ \E count \in 0..(MaxUuid - uuidCount), start_date \in GeneratorInstants,
              provider_list \in ProviderRequests :
           \E end_date \in {t \in GeneratorInstants : t >= start_date} :
           \E r \in generate_call_batch(count, start_date, end_date, provider_list, uuidCount) :
            /\ op' = "generate_call_batch"
            /\ args' = [count |-> count, start_date |-> start_date, end_date |-> end_date,
                        providers |-> provider_list]
            /\ result' = r
            /\ uuidCount' = uuidCount + (IF Raised(r) THEN 0 ELSE count)

\* VCPMessage(**data)
Construct ==
    /\ Idle
    /\ \E data \in ValidationDocuments, now \in Times :
        /\ op' = "VCPMessage"
        /\ args' = [data |-> data, now |-> now]
        /\ result' = VCPMessage(data, now)
    /\ UNCHANGED uuidCount

\* validate_v05 returns its findings; the except clause leaves no exception
ValidateV05 ==
    /\ Idle
    /\ \E message \in ValidationMessages :
        /\ op' = "validate_v05"
        /\ args' = [message |-> message]
        /\ result' = [exc |-> "", val |-> None,
                      validation |-> validate_v05(message, FirstInstant)]
    /\ UNCHANGED uuidCount

\* the caller takes the result; the engine retains nothing of the call
Return ==
    /\ ~Idle
    /\ op' = "idle"
    /\ args' = <<>>
    /\ result' = Ok(None)
    /\ UNCHANGED uuidCount

Next ==
    \/ Get
    \/ Set
    \/ Transform
    \/ ValidateSignature
    \/ Map
    \/ TestWebhookTransformation
    \/ UpgradeFromV03
    \/ UpgradeV03ToV04
    \/ ToV03Compatible
    \/ Construct
    \/ ValidateV05
    \/ GenerateCallBatch
    \/ Return

Spec == Init /\ [][Next]_vars

----------------------------------------------------------------------------
(* Properties *)

Returned(name) == op = name /\ ~Raised(result)

\* the value reached from c after the first n segments
RECURSIVE ValueAt(_, _, _)
ValueAt(c, segments, n) ==
    IF n = 0 THEN c ELSE Val(ValueAt(c, segments, n - 1))[segments[n]]

\* segment n can be followed: the value reached so far is a map holding it
StepOk(c, segments, n) ==
    /\ IsDict(ValueAt(c, segments, n - 1))
    /\ segments[n] \in DOMAIN Val(ValueAt(c, segments, n - 1))

\* the first n segments can be followed
Resolves(c, segments, n) == \A m \in 1..n : StepOk(c, segments, m)

\* a segment is missing, or a value that is no map is indexed
Broken(c, segments) ==
    \E n \in 1..Len(segments) : Resolves(c, segments, n - 1) /\ ~StepOk(c, segments, n)

\* an intermediate segment of the path holds a value that is no map
NonMapOnPath(c, segments) ==
    \E n \in 1..(Len(segments) - 1) :
        Resolves(c, segments, n) /\ ~IsDict(ValueAt(c, segments, n))

IsRegistered(provider_id) == get_provider(provider_id) # <<>>

\* C1: every mapping rule whose provider path is present in the payload has
\* its (transformed) value at the rule's canonical path of the returned message,
\* whatever section the path names
C1_RuleValuesAtCanonicalPaths ==
    LET RuleHolds(provider_id, payload, message, rule) ==
            LET \* where a canonical path lies in the message: audit.* at the top level,
                \* every other section under vcp_payload
                MessageKeys(vcp_path) ==
                    IF Head(Split(vcp_path, ".")) = "audit" THEN Split(vcp_path, ".")
                    ELSE <<"vcp_payload">> \o Split(vcp_path, ".")
                value == GetKeys(payload, Split(rule[1], ".")) IN
            ~IsNone(value) =>
                /\ ~Broken(message, MessageKeys(rule[2]))
                /\ ValueAt(message, MessageKeys(rule[2]), Len(MessageKeys(rule[2])))
                     = TransformFor(provider_id, rule[1], value).val
    IN  (Returned("map") /\ IsRegistered(args.provider_name)) =>
            LET rules == get_provider(args.provider_name)[1].vcp_mapping_rules IN
            \A i \in 1..Len(rules) :
                RuleHolds(args.provider_name, args.webhook_payload, result.val, rules[i])

\* C2: the message map returns for a registered provider is structurally
\* complete, however sparse the payload: every canonical section is present
\* with all of its required fields
C2_MapResultStructurallyComplete ==
    LET StructurallyComplete(message) ==
            LET NamedRequiredPaths ==
                    {<<"outcomes", "objective", "status">>, <<"outcomes", "objective", "scored_criteria">>,
                     <<"outcomes", "perception_gap", "gap_class">>, <<"consent", "status">>}
                CanonicalSections == {"call", "outcomes", "artifacts", "custom", "consent", "provenance"}
                \* every required field of a model, and of the models nested in it, is present
                RECURSIVE HasRequired(_, _)
                HasRequired(model, data) ==
                    /\ IsDict(data)
                    /\ \A i \in 1..Len(Schema(model)) :
                        LET field == Schema(model)[i] IN
                        /\ field.required => field.key \in DOMAIN Val(data)
                        /\ (field.key \in DOMAIN Val(data) /\ field.kind[1] = "model")
                             => HasRequired(field.kind[2], Val(data)[field.key])
            IN  /\ {"vcp_payload", "audit"} \subseteq DOMAIN Val(message)
                /\ IsDict(Val(message).vcp_payload)
                /\ CanonicalSections \subseteq DOMAIN Val(Val(message).vcp_payload)
                /\ HasRequired("VCPMessage", message)
                /\ HasRequired("ConsentRecord", Val(Val(message).vcp_payload).consent)
                /\ \A path \in NamedRequiredPaths : ~Broken(Val(message).vcp_payload, path)
    IN  (Returned("map") /\ IsRegistered(args.provider_name)) => StructurallyComplete(result.val)

\* C3: for every registered provider and its example payload, the map result
\* loaded as a v0.5 VCPMessage and validated has no errors
C3_ExamplePayloadsValidate ==
    (op = "test_webhook_transformation"
        /\ args.provider_name \in ProviderNames
        /\ args.webhook_payload = providers[args.provider_name].example_payload)
    => (~Raised(result) /\ result.validation.errors = <<>>)

\* C4: the signature check returns true only for the HMAC-SHA256 provider and
\* only when the recomputed digest matched
C4_TrueOnlyForMatchingHmac ==
    (Returned("signature") /\ result.val = Bool(TRUE)) =>
        /\ IsRegistered(args.provider_name)
        /\ get_provider(args.provider_name)[1].webhook_auth = "hmac_sha256"
        /\ IsStr(args.secret)
        /\ \E t \in SigTimestamps :
             Contains(args.signature,
                      HmacSha256Hex(Val(args.secret), t \o "." \o args.payload))

\* C5: the signature check always returns a boolean and never raises
C5_SignatureCheckReturnsBoolean ==
    op = "signature" => (~Raised(result) /\ result.val \in {Bool(TRUE), Bool(FALSE)})

\* a request to the HMAC-SHA256 provider with the header 't=<t>,v0=<h>'
WellFormedRequest(t, h) ==
    /\ op = "signature"
    /\ args.provider_name = "elevenlabs"
    /\ IsStr(args.secret)
    /\ args.signature = WellFormedHeader(t, h)

C7_GetAfterSetReturnsValue ==
    op = "set" =>
        /\ ~Raised(result)
        /\ _get_nested_value(result.val, JoinDots(args.segments)) = args.value

\* C8: get returns absent, and never an error, when a segment of the path is
\* missing or a value that is no map is indexed; get leaves the container as
\* it was
C8_GetAbsentOnBrokenPath ==
    op = "get" =>
        /\ ~Raised(result)
        /\ Broken(args.container, args.segments) => result.val = None
        /\ ~Broken(args.container, args.segments) =>
             result.val = ValueAt(args.container, args.segments, Len(args.segments))
        /\ result.container = args.container

\* a get of a.b.c on the empty map, and a get through a value that is no map
C8_Witness ==
    /\ op = "get"
    /\ result.val = None
    /\ \/ args.container = EmptyDict /\ args.segments = <<"a", "b", "c">>
       \/ NonMapOnPath(args.container, args.segments)

\* C9: set does not fail when an intermediate segment holds a value that is no
\* map: it overwrites that value with a map and completes the write
C9_SetOverwritesNonMap ==
    (op = "set" /\ NonMapOnPath(args.container, args.segments)) =>
        /\ ~Raised(result)
        /\ _get_nested_value(result.val, JoinDots(args.segments)) = args.value

\* C10: every value transform returns a value of its documented domain and
\* never throws, for every string and every other JSON value that is not null
C10_TransformsTotal ==
    LET \* the documented range of each transform, in hundredths for the scores
        InDomain(name, value) ==
            CASE name = "sentiment" -> Tag(value) = "float" /\ Val(value) \in 0..100
              [] name = "direction" -> IsStr(value) /\ Val(value) \in {"phone", "web", "api", "websocket"}
              [] name = "disconnection" ->
                    IsStr(value) /\ Val(value) \in {"success", "timeout", "error", "partial", "failure"}
              [] name = "qualification" -> Tag(value) = "float" /\ Val(value) \in 50..100
    IN  op = "transform" => (~Raised(result) /\ InDomain(args.name, result.val))

----------------------------------------------------------------------------
(* Value transforms *)

TransformOf(name) == op = "transform" /\ args.name = name

\* the status classes in the order they are tried, with their terms
DisconnectClasses ==
    << [status |-> "success", terms |-> {"completed", "success", "finished"}],
       [status |-> "timeout", terms |-> {"timeout", "no_answer", "busy"}],
       [status |-> "error", terms |-> {"error", "failed", "connection"}],
       [status |-> "partial", terms |-> {"partial", "incomplete"}] >>

HasTermOf(reason, k) ==
    \E term \in DisconnectClasses[k].terms : Contains(Lower(reason), term)

\* C11: the disconnect-reason transform gives a free-text reason the class of
\* highest priority (success, timeout, error, partial) one of whose terms it
\* holds, and failure when it holds none; "customer completed booking after
\* transfer" is success and "line busy, no answer" is timeout
C11_DisconnectPriorityOrder ==
    LET \* the class of highest priority one of whose terms the reason holds
        ExpectedStatus(reason) ==
            IF \E k \in 1..4 : HasTermOf(reason, k)
            THEN DisconnectClasses[CHOOSE k \in 1..4 :
                    HasTermOf(reason, k) /\ \A j \in 1..(k - 1) : ~HasTermOf(reason, j)].status
            ELSE "failure"
    IN  (TransformOf("disconnection") /\ IsStr(args.value)) =>
            /\ result = Ok(Str(ExpectedStatus(Val(args.value))))
            /\ args.value = Str("customer completed booking after transfer")
                 => result = Ok(Str("success"))
            /\ args.value = Str("line busy, no answer") => result = Ok(Str("timeout"))

\* a reason holding terms of two classes was given the class tried first
C11_Witness ==
    /\ TransformOf("disconnection")
    /\ IsStr(args.value)
    /\ \E j \in 1..4, k \in 1..4 :
         /\ j < k
         /\ HasTermOf(Val(args.value), j)
         /\ HasTermOf(Val(args.value), k)
         /\ result = Ok(Str(DisconnectClasses[j].status))

\* C12: the sentiment transform maps the k-th of the seven ordered labels,
\* compared case-insensitively, to (k - 1)/6, and every other label to 0.5
\* (scores are in hundredths: 6 * score = 100 * (k - 1))
C12_SentimentEqualSixths ==
    LET \* the seven labels from the lowest to the highest
        SentimentLabels ==
            <<"very_negative", "negative", "slightly_negative", "neutral",
              "slightly_positive", "positive", "very_positive">>
    IN  (TransformOf("sentiment") /\ IsStr(args.value)) =>
            /\ ~Raised(result)
            /\ Tag(result.val) = "float"
            /\ \A k \in 1..7 :
                 Lower(Val(args.value)) = SentimentLabels[k]
                    => 6 * Val(result.val) = 100 * (k - 1)
            /\ (\A k \in 1..7 : Lower(Val(args.value)) # SentimentLabels[k])
                    => Val(result.val) = 50

\* str(value).lower() of a sales-data field, "" when the field is absent
FieldText(sales_data, key) == Lower(PyStr(DictGet(sales_data, key, Str(""))))

DecisionBonus(sales_data) ==
    IF "decision_maker" \in DOMAIN Val(sales_data)
       /\ Val(sales_data)["decision_maker"] = Bool(TRUE) THEN 20 ELSE 0

BudgetBonus(sales_data) ==
    IF Contains(FieldText(sales_data, "budget_range"), "$")
       \/ Contains(FieldText(sales_data, "budget_range"), "budget") THEN 15 ELSE 0

UrgentSignal(sales_data) ==
    \E signal \in {"immediate", "urgent", "30 days"} :
        Contains(FieldText(sales_data, "purchase_timeline"), signal)

QuarterSignal(sales_data) ==
    \E signal \in {"quarter", "90 days"} :
        Contains(FieldText(sales_data, "purchase_timeline"), signal)

\* C13: the qualification score is 0.5, plus 0.20 for a decision-maker flag
\* that is exactly true, plus 0.15 for a budget indicator, plus 0.15 for an
\* immediate/urgent/30-days timeline or else 0.10 for a quarter/90-days
\* timeline, at most 1.0; it always lies in [0.5, 1.0] (hundredths)
C13_QualificationScore ==
    LET TimelineBonus(sales_data) ==
            IF UrgentSignal(sales_data) THEN 15 ELSE IF QuarterSignal(sales_data) THEN 10 ELSE 0
    IN  TransformOf("qualification") =>
            LET sum == 50 + DecisionBonus(args.value) + BudgetBonus(args.value)
                          + TimelineBonus(args.value)
            IN  /\ result = Ok(Float(IF sum > 100 THEN 100 ELSE sum))
                /\ Val(result.val) \in 50..100

\* a timeline carrying both signals earned the urgency bonus alone, and a
\* score reached the top of the range
C13_Witness ==
    /\ TransformOf("qualification")
    /\ \/ /\ UrgentSignal(args.value) /\ QuarterSignal(args.value)
          /\ DecisionBonus(args.value) = 0 /\ BudgetBonus(args.value) = 0
          /\ result = Ok(Float(65))
       \/ /\ DecisionBonus(args.value) = 20 /\ BudgetBonus(args.value) = 15
          /\ UrgentSignal(args.value)
          /\ result = Ok(Float(100))

----------------------------------------------------------------------------
(* Identifiers *)

\* C14: in a message map returns, call.call_id is the identifier the provider
\* supplied, or else the identifier freshly generated for this call, and a
\* session id the provider did not supply is "sess_" + provider id + "_" + the
\* first 8 characters of the message's call.call_id
C14_CallAndSessionIds ==
    LET \* map returned a message for a registered provider
        Mapped == Returned("map") /\ IsRegistered(args.provider_name) /\ Truthy(result.val)
        \* a field of the call section of a message
        CallField(message, key) == Val(Val(Val(message).vcp_payload).call)[key]
        \* the payload's value for the rule that targets vcp_path, None when the
        \* provider has no such rule or the payload no such field
        RECURSIVE SuppliedFrom(_, _, _, _)
        SuppliedFrom(rules, payload, vcp_path, i) ==
            IF i > Len(rules) THEN None
            ELSE IF rules[i][2] = vcp_path THEN GetKeys(payload, Split(rules[i][1], "."))
            ELSE SuppliedFrom(rules, payload, vcp_path, i + 1)
        Supplied(provider_id, payload, vcp_path) ==
            SuppliedFrom(get_provider(provider_id)[1].vcp_mapping_rules, payload, vcp_path, 1)
    IN  Mapped =>
            LET supplied == Supplied(args.provider_name, args.webhook_payload, "call.call_id")
                session == Supplied(args.provider_name, args.webhook_payload, "call.session_id")
                call_id == CallField(result.val, "call_id")
            IN  /\ ~IsNone(supplied) => call_id = supplied
                /\ IsNone(supplied) => (call_id = Str(Uuid4(uuidCount)) /\ Val(call_id) # "")
                /\ IsNone(session) =>
                     /\ IsStr(call_id)
                     /\ CallField(result.val, "session_id")
                          = Str("sess_" \o args.provider_name \o "_" \o Prefix(Val(call_id), 8))

\* C15: a second call of map with the same provider id, payload and clock
\* reading returns the same output as the first
C15_MapDeterministic ==
    (op = "map" /\ uuidCount < MaxUuid) =>
        LET again == map_to_vcp(args.provider_name, args.webhook_payload, args.now,
                                Uuid4(uuidCount + 1))
        IN  again.exc = result.exc /\ again.val = result.val

----------------------------------------------------------------------------
(* Versions *)

\* an upgrade or the downgrade returned
Converted ==
    LET VersionOps == {"upgrade_from_v03", "upgrade_v03_to_v04", "to_v03_compatible"}
    IN  op \in VersionOps /\ ~Raised(result)

\* the message handed to the conversion, as it was at the call and as the
\* call leaves it
MessageBefore ==
    CASE op = "upgrade_from_v03" -> args.v03_data
      [] op = "upgrade_v03_to_v04" -> args.v03_message
      [] op = "to_v03_compatible" -> args.self

\* the call section and the capabilities list of a message or document
CallOf(message) == Val(Val(message).vcp_payload).call
CapabilitiesOf(message) == Val(Val(CallOf(message)).capabilities_invoked)

\* C16: every upgrade or downgrade that returns has moved the message to a
\* version adjacent to the one it came in with, in the order 0.3 < 0.4 < 0.5;
\* no single step goes from 0.3 to 0.5 or from 0.5 to 0.3
C16_AdjacentVersionSteps ==
    LET \* position of a version in the order 0.3 < 0.4 < 0.5
        VersionRank(version) ==
            CASE version = Str("0.3") -> 3
              [] version = Str("0.4") -> 4
              [] version = Str("0.5") -> 5
              [] OTHER -> 0
    IN  Converted =>
            LET before == VersionRank(Val(MessageBefore).vcp_version)
                after == VersionRank(Val(result.val).vcp_version)
            IN  before # 0 /\ after # 0 /\ (after = before + 1 \/ after = before - 1)

\* C17: the message upgrade_from_v03 returns for a v0.3 message has the entry
\* "upgraded_from_v0.3" in provenance.transformation_history and a consent
\* section whose status is not granted, also when the input already carried
\* a provenance section
C17_UpgradeAddsHistoryAndConsent ==
    (Returned("upgrade_from_v03") /\ Val(args.v03_data).vcp_version = Str("0.3")) =>
        LET payload == Val(Val(result.val).vcp_payload)
            history == Val(Val(payload.provenance).transformation_history)
        IN  /\ \E i \in DOMAIN history : history[i] = Str("upgraded_from_v0.3")
            /\ ~IsNone(payload.consent)
            /\ Val(payload.consent).status # Str("granted")

\* C18: when upgrade_from_v03, upgrade_v03_to_v04 or to_v03_compatible has
\* returned, the message passed in is what it was at the call: its
\* vcp_version, its payload sections and its capabilities list
C18_InputNotMutated ==
    LET MessageAfter ==
            CASE op = "upgrade_from_v03" -> result.v03_data
              [] op = "upgrade_v03_to_v04" -> result.v03_message
              [] op = "to_v03_compatible" -> result.self
    IN  Converted => MessageAfter = MessageBefore

\* C19: the document to_v03_compatible returns has vcp_version "0.3", a payload
\* with neither consent nor provenance, and a capabilities list as long as the
\* message's, holding in the same order the capability_id of each record and
\* each string unchanged
C19_DowngradeToV03 ==
    Returned("to_v03_compatible") =>
        LET before == CapabilitiesOf(args.self)
            after == CapabilitiesOf(result.val)
        IN  /\ Val(result.val).vcp_version = Str("0.3")
            /\ DOMAIN Val(Val(result.val).vcp_payload) \cap {"consent", "provenance"} = {}
            /\ Len(after) = Len(before)
            /\ \A i \in DOMAIN before :
                 /\ IsStr(after[i])
                 /\ after[i] = IF IsStr(before[i]) THEN before[i]
                               ELSE Val(before[i]).capability_id

\* a message with a consent record and with a capability record followed by
\* a capability string was downgraded
C19_Witness ==
    /\ Returned("to_v03_compatible")
    /\ ~IsNone(Val(Val(args.self).vcp_payload).consent)
    /\ Len(CapabilitiesOf(args.self)) = 2
    /\ Tag(CapabilitiesOf(args.self)[1]) = "object"
    /\ IsStr(CapabilitiesOf(args.self)[2])
    /\ CapabilitiesOf(result.val) = <<Str("sms_send"), Str("crm_lookup")>>

\* C20: a v0.3 message upgraded to v0.5 and downgraded to v0.3 again has every
\* v0.3 call field of the original with its original value, its list of
\* capability identifier strings included
C20_RoundTripContainment ==
    LET \* a list of capability identifier strings
        IdentifierStrings(capabilities) ==
            Tag(capabilities) = "list" /\ \A i \in DOMAIN Val(capabilities) : IsStr(Val(capabilities)[i])
        \* a value came back: as it was, or as the datetime of the instant its text names
        CameBack(original, returned) ==
            \/ returned = original
            \/ IsStr(original) /\ Tag(returned) = "datetime"
                               /\ Val(original) = IsoFormat(Val(returned))
        \* the call fields of a v0.3 message
        V03CallFields ==
            {"call_id", "session_id", "provider", "start_time", "end_time", "duration_sec",
             "capabilities_invoked", "purpose_contract"}
    IN  (Returned("upgrade_from_v03") /\ Val(args.v03_data).vcp_version = Str("0.3")) =>
            LET original == Val(CallOf(args.v03_data))
                returned == Val(CallOf(to_v03_compatible(result.val)))
            IN  \A key \in DOMAIN original \cap V03CallFields :
                    (key = "capabilities_invoked" => IdentifierStrings(original[key])) =>
                        /\ key \in DOMAIN returned
                        /\ CameBack(original[key], returned[key])

----------------------------------------------------------------------------
(* Validation *)

\* a finding of the given text is in the list
Found(findings, text) == \E i \in DOMAIN findings : findings[i] = text

\* the call section and the consent status of a loaded message, "" without consent
LoadedCall(message) == Val(Val(Val(message).vcp_payload).call)
ConsentStatusOf(message) ==
    LET consent == Val(Val(message).vcp_payload).consent
    IN  IF IsNone(consent) THEN "" ELSE Val(Val(consent).status)

\* the call of a loaded message ends before it starts
EndsEarly(message) ==
    /\ ~IsNone(LoadedCall(message).end_time)
    /\ Val(LoadedCall(message).end_time) < Val(LoadedCall(message).start_time)

C22_EarlyCapabilityWarned ==
    op = "validate_v05" =>
        LET capabilities == Val(LoadedCall(args.message).capabilities_invoked)
        IN  \A i \in DOMAIN capabilities :
                Tag(capabilities[i]) = "object" =>
                    (Found(result.validation.warnings,
                           "Capability " \o Val(Val(capabilities[i]).capability_id)
                               \o " invoked before call start")
                     <=> Val(Val(capabilities[i]).invoked_at)
                           < Val(LoadedCall(args.message).start_time))

\* C23: a document that declares version 0.5 and has no consent or no
\* provenance section is rejected by the constructor or gets an error from
\* validate_v05
C23_NewestVersionNeedsConsentAndProvenance ==
    (op = "VCPMessage" /\ Val(args.data).vcp_version = Str("0.5")
     /\ ~({"consent", "provenance"} \subseteq DOMAIN Val(Val(args.data).vcp_payload))) =>
        \/ Raised(result)
        \/ validate_v05(result.val, args.now).errors # <<>>

----------------------------------------------------------------------------
(* The mapper under malformed payloads, its timestamps and identifiers *)

\* C24: map raises for no provider id and no payload: an unknown provider gives
\* the empty result, a registered provider a message
C24_MapNeverRaises ==
    op = "map" =>
        /\ result.exc = ""
        /\ IF IsRegistered(args.provider_name) THEN Truthy(result.val)
           ELSE result.val = EmptyDict

\* C25: every timestamp of a message returned by map (call.start_time,
\* call.end_time, model_selection.resolved_at, provenance.created_at,
\* audit.received_at) is a string that ends with the UTC suffix "Z"
C25_TimestampsEndWithZ ==
    LET EndsWithZ(value) ==
            /\ IsStr(value)
            /\ Len(Val(value)) > 0
            /\ SubSeq(Val(value), Len(Val(value)), Len(Val(value))) = "Z"
        TimestampPaths ==
            {"vcp_payload.call.start_time", "vcp_payload.call.end_time",
             "vcp_payload.model_selection.resolved_at",
             "vcp_payload.provenance.created_at", "audit.received_at"}
    IN  (op = "map" /\ result.exc = "" /\ Truthy(result.val)) =>
            \A path \in TimestampPaths : EndsWithZ(_get_nested_value(result.val, path))

\* C28: in a message returned by map, consent.consent_id is "consent_" followed
\* by call.call_id, and a session identifier made by the mapper
\* ("sess_<provider>_...") ends with the first eight characters of that
\* call.call_id
C28_OneCallIdentifier ==
    (op = "map" /\ result.exc = "" /\ Truthy(result.val)) =>
        LET call_id == _get_nested_value(result.val, "vcp_payload.call.call_id")
            session_id == _get_nested_value(result.val, "vcp_payload.call.session_id")
            consent_id == _get_nested_value(result.val, "vcp_payload.consent.consent_id")
            made == "sess_" \o args.provider_name \o "_"
        IN  /\ consent_id = Str("consent_" \o PyStr(call_id))
            /\ (IsStr(session_id) /\ Prefix(Val(session_id), Len(made)) = made)
                   => session_id = Str(made \o Prefix(PyStr(call_id), 8))

\* C30: for a registered provider named in any letter case, map returns what
\* it returns for the lower-case id as far as the mapped sections (call apart
\* from provider and session_id, outcomes, artifacts), the provider-specific
\* data and the integrations data go, and the signature check decides as it
\* does for the lower-case id
C30_ProviderIdCaseIrrelevant ==
    LET Section(message, name) == DictGet(DictGet(message, "vcp_payload", EmptyDict), name, EmptyDict)
        Without(section, keys) == Restrict(Val(section), DOMAIN Val(section) \ keys)
        SameMapping(id, message, reference) ==
            /\ Without(Section(message, "call"), {"provider", "session_id"})
                 = Without(Section(reference, "call"), {"provider", "session_id"})
            /\ Section(message, "outcomes") = Section(reference, "outcomes")
            /\ Section(message, "artifacts") = Section(reference, "artifacts")
            /\ Val(DictGet(Section(message, "custom"), "provider_specific", EmptyDict))[id]
                 = Val(DictGet(Section(reference, "custom"), "provider_specific", EmptyDict))[Lower(id)]
            /\ Without(Section(message, "custom"), {"provider_specific"})
                 = Without(Section(reference, "custom"), {"provider_specific"})
    IN  /\ (op = "map" /\ IsRegistered(args.provider_name)) =>
               \A reference \in {map_to_vcp(Lower(args.provider_name), args.webhook_payload,
                                            args.now, Uuid4(uuidCount))} :
                   /\ result.exc = reference.exc
                   /\ result.exc = "" => SameMapping(args.provider_name, result.val, reference.val)
        /\ (op = "signature" /\ IsRegistered(args.provider_name)) =>
               result = validate_webhook_signature(Lower(args.provider_name), args.payload,
                                                   args.signature, args.secret)

\* C29: the document to_v03_compatible returns carries one version: its
\* audit.schema_version is its vcp_version, "0.3"
C29_DowngradeVersionTagsAgree ==
    Returned("to_v03_compatible") =>
        /\ Val(result.val).vcp_version = Str("0.3")
        /\ Val(Val(result.val).audit).schema_version = Val(result.val).vcp_version

----------------------------------------------------------------------------
(* The mapping rules against the v0.5 schema *)

\* C26: the canonical path of every mapping rule of the provider that map was
\* called for names a field of the v0.5 schema: its first segment is a section
\* of the payload (or of the message), every further segment a declared field
\* of the model reached so far or a key of a declared free-form map
C26_RulePathsInSchema ==
    LET \* the segments from n on lead from a value of the kind to a declared place
        RECURSIVE Declared(_, _, _)
        Declared(kind, segments, n) ==
            IF n > Len(segments) THEN TRUE
            ELSE CASE kind[1] = "opt" -> Declared(kind[2], segments, n)
                   [] kind[1] = "any" -> TRUE
                   [] kind[1] = "dict" ->
                        /\ kind[2] = {} \/ segments[n] \in kind[2]
                        /\ Declared(kind[3], segments, n + 1)
                   [] kind[1] = "model" ->
                        \E i \in DOMAIN Schema(kind[2]) :
                            /\ segments[n] \in {Schema(kind[2])[i].name, Schema(kind[2])[i].key}
                            /\ Declared(Schema(kind[2])[i].kind, segments, n + 1)
                   [] OTHER -> FALSE
        InSchema(vcp_path) ==
            \/ Declared(<<"model", "VCPPayload">>, Split(vcp_path, "."), 1)
            \/ Declared(<<"model", "VCPMessage">>, Split(vcp_path, "."), 1)
    IN  (op = "map" /\ IsRegistered(args.provider_name)) =>
            \A i \in DOMAIN get_provider(args.provider_name)[1].vcp_mapping_rules :
                InSchema(get_provider(args.provider_name)[1].vcp_mapping_rules[i][2])

----------------------------------------------------------------------------
(* The synthetic generator *)

\* C27: a batch generated for a window from start_date to end_date and a
\* non-empty (or defaulted) provider request has exactly count calls, and
\* every call's serialized call.start_time, read back as the instant it
\* denotes, lies from start_date to end_date and its provider is a requested one
C27_BatchWithinWindow ==
    LET \* datetime.fromisoformat(text.rstrip('Z')).replace(tzinfo=timezone.utc),
        \* in microseconds
        ReadBack(text) ==
            1000 * (CHOOSE ms \in 0..1000 : StrftimeMillisZ(ms * 1000) = Val(text))
        Requested(provider_list) ==
            IF IsNone(provider_list) THEN {Str("retell"), Str("vapi"), Str("bland")}
            ELSE {Val(provider_list)[i] : i \in DOMAIN Val(provider_list)}
        CallInfo(call) == Val(Val(Val(call).vcp_payload).call)
    IN  (op = "generate_call_batch" /\ args.providers # EmptyList) =>
            /\ result.exc = ""
            /\ Len(Val(result.val)) = args.count
            /\ \A i \in DOMAIN Val(result.val) :
                 /\ CallInfo(Val(result.val)[i]).provider \in Requested(args.providers)
                 /\ args.start_date <= ReadBack(CallInfo(Val(result.val)[i]).start_time)
                 /\ ReadBack(CallInfo(Val(result.val)[i]).start_time) <= args.end_date

=============================================================================
